---- MODULE Spec2Model ----
(***************************************************************************)
(* Model of the video-generation backend: the VEO3 client                  *)
(* (app/services/veo3_service.py), the session endpoints                   *)
(* (app/routers/video_sessions.py, crud.py), the AI pipeline               *)
(* (app/services/ai_processor.py) and the LLM adapter                      *)
(* (app/services/openai_service.py).                                       *)
(*                                                                         *)
(* Each component has its own specification over the shared variables:     *)
(*   SpecCreate   - _extract_task_id on one creation response              *)
(*   SpecStatus   - one pass of the polling loop body on one response      *)
(*   SpecPoll     - the polling loop of poll_task_status                   *)
(*   SpecSession  - the session endpoints and the processing pipeline      *)
(*   SpecRace     - two clients' start-processing requests for one session *)
(*   SpecRun      - one client's start-processing requests, with fairness  *)
(*   SpecLLM      - the two analysis operations of the LLM adapter         *)
(*   SpecDownload - download_video                                         *)
(*   SpecGenerate - one generation attempt, generate_video_complete        *)
(*   SpecFiles    - the file-delete endpoint                               *)
(*   SpecPrompt   - the request the prompt step sends to the LLM           *)
(*   SpecCount    - requests for a file's signed download URL              *)
(*   SpecTts      - process_tts_request (tts_service.py)                   *)
(*   SpecTotals   - the file endpoints and a session's total_files         *)
(*   SpecImage    - the image stage of a processing run                    *)
(***************************************************************************)
EXTENDS Integers, Sequences, FiniteSets, TLC

VARIABLES
    cresp,      \* create: the decoded JSON body of the creation response
    cout,       \* create: what _extract_task_id did with it
    sresp,      \* status: the decoded JSON body of one status response
    sout,       \* status: what one pass of the polling loop body did with it
    api_key,    \* poll: whether VEO3_API_KEY is set
    task_id,    \* poll: the argument of poll_task_status
    ppc,        \* poll: where poll_task_status stands
    now,        \* poll: the event loop's clock, in seconds
    start_time, \* poll: the clock when polling began
    queried,    \* poll: the status queries sent (how many, and the last id asked for)
    hist,       \* poll: what the status endpoint has answered so far
    pout,       \* poll: the returned dictionary
    sessions,   \* session: the video_sessions table
    files,      \* session: the files table, in insertion order
    sp,         \* session: per client, the request being served or last answered
    lin,        \* llm: the reply of the chat completion
    lout,       \* llm: what the analysis operation returned
    fs,         \* download: the generated-video directory
    dl,         \* download: the download_video call
    gen,        \* generate: the generate_video_complete call
    file_rows,  \* files: which file ids have a row in the files table
    blobs,      \* files: which file ids have their object in the bucket
    fdel,       \* files: the last call of the file-delete endpoint
    pm,         \* prompt: one call of _generate_ai_prompts and the request it sent
    dc,         \* count: a file's download counter and the requests for its URL
    tts,        \* tts: the audio record and the process_tts_request call
    img         \* image: a session's files and what the image stage passed on

createVars == <<cresp, cout>>
statusVars == <<sresp, sout>>
pollVars == <<api_key, task_id, ppc, now, start_time, queried, hist, pout>>
sessionVars == <<sessions, files, sp>>
llmVars == <<lin, lout>>
downloadVars == <<fs, dl>>
generateVars == <<gen>>
fileVars == <<file_rows, blobs, fdel>>
promptVars == <<pm>>
countVars == <<dc>>
ttsVars == <<tts>>
imageVars == <<img>>
\* The components of the later sections, and those of the earlier ones.
lateVars == <<promptVars, countVars, ttsVars, imageVars>>
earlyVars ==
    <<createVars, statusVars, pollVars, sessionVars, llmVars, downloadVars, generateVars,
      fileVars>>
vars == <<cresp, cout, sresp, sout, api_key, task_id, ppc, now, start_time, queried,
          hist, pout, sessions, files, sp, lin, lout, fs, dl, gen, file_rows, blobs, fdel,
          pm, dc, tts, img>>

\* What a step of one component leaves alone.
restCreate ==
    <<statusVars, pollVars, sessionVars, llmVars, downloadVars, generateVars, fileVars, lateVars>>
restStatus ==
    <<createVars, pollVars, sessionVars, llmVars, downloadVars, generateVars, fileVars, lateVars>>
restPoll ==
    <<createVars, statusVars, sessionVars, llmVars, downloadVars, generateVars, fileVars, lateVars>>
restSession ==
    <<createVars, statusVars, pollVars, llmVars, downloadVars, generateVars, fileVars, lateVars>>
restLLM ==
    <<createVars, statusVars, pollVars, sessionVars, downloadVars, generateVars, fileVars, lateVars>>
restDownload ==
    <<createVars, statusVars, pollVars, sessionVars, llmVars, generateVars, fileVars, lateVars>>

(***************************************************************************)
(* JSON values as the Python code sees them.  Every scalar is a record     *)
(* [k, s]: k is the Python type, s the text str() gives.                   *)
(***************************************************************************)
NoneVal == [k |-> "none", s |-> "None"]
StrVal(x) == [k |-> "str", s |-> x]
IntVal(x) == [k |-> "int", s |-> x]

\* Python truthiness of a scalar: None, "" and 0 are falsy.
Truthy(v) ==
    CASE v.k = "none" -> FALSE
      [] v.k = "str" -> v.s # ""
      [] v.k = "int" -> v.s # "0"

\* str(v)
PyStr(v) == v.s

(***************************************************************************)
(* A decoded response body.  kind is the Python type of the body; for a    *)
(* dict, c gives what sits under "data", "result" and "detail" ("absent":  *)
(* no such key, "dict": a JSON object, "other": null, a string or a list)  *)
(* and f the scalar under each <<container, key>> path ("top" for the body *)
(* itself).                                                                *)
(***************************************************************************)
Containers == {"data", "result", "detail"}
ContainerKinds == {"absent", "dict", "other"}

\* The outcome of evaluating a Python expression: a value, or an exception.
Val(v) == [raised |-> FALSE, v |-> v]
Raised == [raised |-> TRUE, v |-> NoneVal]

\* response_data.get(cont, {}).get(key), or response_data.get(key) for "top":
\* the default {} only replaces a missing key, so a container that is present
\* but is no dict has no .get and the call raises AttributeError.
Lookup(r, cont, key) ==
    IF cont = "top" THEN Val(r.f[<<"top", key>>])
    ELSE CASE r.c[cont] = "absent" -> Val(NoneVal)
           [] r.c[cont] = "dict" -> Val(r.f[<<cont, key>>])
           [] r.c[cont] = "other" -> Raised

\* What the JSON document holds at a location, whatever the code does.
ValueAt(r, cont, key) ==
    IF cont = "top" \/ r.c[cont] = "dict" THEN r.f[<<cont, key>>] ELSE NoneVal

\* Fields of a container that is no dict do not exist.
WellFormed(r, paths) ==
    \A p \in paths : (p[1] # "top" /\ r.c[p[1]] # "dict") => r.f[p] = NoneVal

(***************************************************************************)
(* Task creation: _extract_task_id                                         *)
(***************************************************************************)
MaxIds == 2
IdNames == <<"task-a", "task-b", "task-c", "task-d">>
TaskIds == {IdNames[i] : i \in 1..MaxIds}
IdValues == {NoneVal, StrVal(""), IntVal("7")} \cup {StrVal(t) : t \in TaskIds}

\* The candidate locations, in the order of the candidates list.
TaskIdCandidates ==
    << <<"data", "id">>, <<"top", "id">>, <<"result", "id">>,
       <<"top", "task_id">>, <<"data", "task_id">>, <<"detail", "id">> >>
CreatePaths == {TaskIdCandidates[i] : i \in 1..Len(TaskIdCandidates)}

CreateDicts ==
    {r \in [kind : {"dict"}, str : {""}, c : [Containers -> ContainerKinds],
            f : [CreatePaths -> IdValues]] : WellFormed(r, CreatePaths)}

EmptyCreateFields == [p \in CreatePaths |-> NoneVal]
NoContainers == [c \in Containers |-> "absent"]

\* A bare string body, JSON null, and a body of another type (a list, a number).
CreateScalars ==
    {[kind |-> "str", str |-> s, c |-> NoContainers, f |-> EmptyCreateFields] :
        s \in {""} \cup TaskIds}
    \cup {[kind |-> k, str |-> "", c |-> NoContainers, f |-> EmptyCreateFields] :
        k \in {"none", "other"}}

CreateResponses == CreateDicts \cup CreateScalars

\* "Return first non-empty value": the first truthy entry of a list of
\* evaluated candidates, as str(); None when there is none.
RECURSIVE FirstNonEmpty(_, _)
FirstNonEmpty(cands, i) ==
    IF i > Len(cands) THEN Val(NoneVal)
    ELSE IF Truthy(cands[i].v) THEN Val(StrVal(PyStr(cands[i].v)))
    ELSE FirstNonEmpty(cands, i + 1)

\* The candidates list is built before the loop: every lookup is evaluated,
\* also those after the first hit.
_extract_task_id(r) ==
    CASE r.kind = "none" -> Val(NoneVal)
      [] r.kind = "str" -> IF r.str = "" THEN Val(NoneVal) ELSE Val(StrVal(r.str))
      [] r.kind = "other" -> Raised
      [] r.kind = "dict" ->
            LET cands == [i \in 1..Len(TaskIdCandidates) |->
                            Lookup(r, TaskIdCandidates[i][1], TaskIdCandidates[i][2])]
            IN IF \E i \in 1..Len(cands) : cands[i].raised THEN Raised
               ELSE FirstNonEmpty(cands, 1)

(***************************************************************************)
(* Status polling: _extract_status_info and the body of the polling loop   *)
(***************************************************************************)
\* str.lower() on the status texts the model feeds in.
Lower(s) ==
    CASE s = "Succeeded" -> "succeeded"
      [] s = "DONE" -> "done"
      [] s = "FAILED" -> "failed"
      [] s = "Canceled" -> "canceled"
      [] OTHER -> s

SuccessStatuses == {"succeeded", "finished", "complete", "completed", "done", "ok", "success"}
FailureStatuses == {"failed", "error", "cancelled", "canceled"}

StatusCandidates ==
    << <<"data", "status">>, <<"top", "status">>, <<"result", "status">>,
       <<"detail", "status">> >>
UrlCandidates ==
    << <<"data", "url">>, <<"data", "video_url">>, <<"data", "video">>,
       <<"top", "url">>, <<"result", "url">>, <<"result", "video_url">>,
       <<"top", "video_url">>, <<"detail", "video_url">>, <<"detail", "url">> >>
ProgressCandidates ==
    << <<"data", "progress">>, <<"top", "progress">>, <<"result", "progress">>,
       <<"detail", "progress">> >>
ErrorCandidates ==
    << <<"data", "error">>, <<"top", "error">>, <<"result", "error">>,
       <<"detail", "error">> >>
\* "Try alternative extraction methods"
FallbackUrlCandidates ==
    << <<"top", "video_url">>, <<"detail", "video_url">>, <<"detail", "url">>,
       <<"data", "video_url">>, <<"data", "url">>, <<"top", "url">> >>

Range(q) == {q[i] : i \in 1..Len(q)}
StatusPaths ==
    Range(StatusCandidates) \cup Range(UrlCandidates) \cup Range(ProgressCandidates)
        \cup Range(ErrorCandidates)

\* Python's a or b or ...: operands are evaluated left to right up to the
\* first truthy one, which is the value; when none is truthy the value is
\* the last operand.  An operand that raises ends the evaluation.
RECURSIVE OrChain(_, _, _)
OrChain(r, cands, i) ==
    LET x == Lookup(r, cands[i][1], cands[i][2])
    IN IF x.raised THEN Raised
       ELSE IF Truthy(x.v) \/ i = Len(cands) THEN x
       ELSE OrChain(r, cands, i + 1)

NoInfo == [raised |-> TRUE, status |-> NoneVal, video_url |-> NoneVal,
           progress |-> NoneVal, error_msg |-> NoneVal]

_extract_status_info(r) ==
    IF r.kind # "dict" THEN NoInfo
    ELSE LET status == OrChain(r, StatusCandidates, 1)
             video_url == OrChain(r, UrlCandidates, 1)
             progress == OrChain(r, ProgressCandidates, 1)
             error_msg == OrChain(r, ErrorCandidates, 1)
         IN IF status.raised \/ video_url.raised \/ progress.raised \/ error_msg.raised
            THEN NoInfo
            ELSE [raised |-> FALSE, status |-> status.v, video_url |-> video_url.v,
                  progress |-> progress.v, error_msg |-> error_msg.v]

\* What one pass of the loop body leaves: a returned result, or nothing (the
\* loop goes on to the sleep).
NoStatusResponse == [kind |-> "none"]
Continue ==
    [done |-> FALSE, success |-> FALSE, kind |-> "pending", video_url |-> NoneVal,
     error |-> "", response_data |-> NoStatusResponse]
ReturnSuccess(url, r) ==
    [done |-> TRUE, success |-> TRUE, kind |-> "completed", video_url |-> url,
     error |-> "", response_data |-> r]
ReturnMissingResult(r) ==
    [done |-> TRUE, success |-> FALSE, kind |-> "missing_result", video_url |-> NoneVal,
     error |-> "Task completed but no video URL found", response_data |-> r]
ReturnFailed(msg, r) ==
    [done |-> TRUE, success |-> FALSE, kind |-> "failed", video_url |-> NoneVal,
     error |-> "Task failed: " \o PyStr(msg), response_data |-> r]

\* status_info.get("status", "").lower(): the key is always there, so the
\* default never applies and a None (or a number) has no .lower().
StatusText(info) ==
    IF info.status.k = "str" THEN Val(StrVal(Lower(info.status.s))) ELSE Raised

\* status_info.get("error_msg", "Unknown error"): the key is always there.
ErrorMsg(info) == info.error_msg

IsSuccessStatus(status) == status \in SuccessStatuses
IsFailureStatus(status) == status \in FailureStatuses

CompletedResult(info, r) ==
    LET video_url == IF Truthy(info.video_url) THEN Val(info.video_url)
                     ELSE OrChain(r, FallbackUrlCandidates, 1)
    IN IF video_url.raised THEN Continue
       ELSE IF Truthy(video_url.v) THEN ReturnSuccess(video_url.v, r)
       ELSE ReturnMissingResult(r)

\* The try block of the loop: any exception inside it is printed and the
\* loop goes on.
PollOnce(r) ==
    LET info == _extract_status_info(r)
        status == StatusText(info)
    IN IF info.raised \/ status.raised THEN Continue
       ELSE IF IsSuccessStatus(status.v.s) THEN CompletedResult(info, r)
       ELSE IF IsFailureStatus(status.v.s) THEN ReturnFailed(ErrorMsg(info), r)
       ELSE Continue

(***************************************************************************)
(* What a status response says, read off the JSON document with the        *)
(* documented probing order and without running the extraction code        *)
(***************************************************************************)
\* What the JSON document holds at the first non-empty of the candidate
\* locations (None when every candidate is empty).
RECURSIVE FirstInDocument(_, _, _)
FirstInDocument(r, cands, i) ==
    IF i > Len(cands) THEN NoneVal
    ELSE IF Truthy(ValueAt(r, cands[i][1], cands[i][2]))
         THEN ValueAt(r, cands[i][1], cands[i][2])
    ELSE FirstInDocument(r, cands, i + 1)

\* The response's status, compared case-insensitively.
DocStatus(r) ==
    LET st == FirstInDocument(r, StatusCandidates, 1)
    IN IF r.kind = "dict" /\ st.k = "str" THEN Lower(st.s) ELSE ""
DocLocation(r) ==
    IF r.kind = "dict" THEN FirstInDocument(r, UrlCandidates, 1) ELSE NoneVal
DocError(r) ==
    IF r.kind = "dict" THEN FirstInDocument(r, ErrorCandidates, 1) ELSE NoneVal

(***************************************************************************)
(* The status responses the model feeds in: JSON objects with up to        *)
(* MaxFields of the probed locations filled in.                            *)
(***************************************************************************)
MaxFields == 3

StatusValues == {StrVal("Succeeded"), StrVal("DONE"), StrVal("FAILED"),
                 StrVal("Canceled"), StrVal("processing"), StrVal("")}
UrlValues == {StrVal("url-a"), StrVal("url-b")}
ProgressValues == {IntVal("50")}
ErrorValues == {StrVal("quota exceeded")}

FieldValues(p) ==
    CASE p \in Range(StatusCandidates) -> StatusValues
      [] p \in Range(UrlCandidates) -> UrlValues
      [] p \in Range(ProgressCandidates) -> ProgressValues
      [] p \in Range(ErrorCandidates) -> ErrorValues

RECURSIVE SubsetsUpTo(_, _)
SubsetsUpTo(S, n) ==
    IF n = 0 THEN {{}}
    ELSE LET prev == SubsetsUpTo(S, n - 1)
         IN prev \cup {T \cup {x} : T \in prev, x \in S}

\* The ways to fill the locations P in.
RECURSIVE Fills(_)
Fills(P) ==
    IF P = {} THEN {<<>>}
    ELSE LET p == CHOOSE q \in P : TRUE
         IN {(p :> v) @@ a : a \in Fills(P \ {p}), v \in FieldValues(p)}

\* The JSON objects with exactly the locations P filled in: a container
\* holding a field is an object, any other is missing or no object.
ObjectsWith(P, kinds) ==
    LET fills == Fills(P)
        conts == {c \in [Containers -> ContainerKinds] :
                     \A k \in Containers :
                        IF \E p \in P : p[1] = k THEN c[k] = "dict"
                        ELSE c[k] \in kinds[k]}
    IN {[kind |-> "dict", str |-> "", c |-> c,
         f |-> [p \in StatusPaths |-> IF p \in P THEN a[p] ELSE NoneVal]] :
            a \in fills, c \in conts}

\* r is one of the status responses the model feeds in: such an object, or a
\* body that is no object at all.
IsStatusResponse(r) ==
    \/ \E P \in SubsetsUpTo(StatusPaths, MaxFields) :
          r \in ObjectsWith(P, [k \in Containers |-> {"absent", "other"}])
    \/ r = NoStatusResponse

(***************************************************************************)
(* Video sessions: the session table (models.VideoSession, crud.py), the   *)
(* files attached to sessions, and the start-processing pipeline           *)
(* (routers/video_sessions.py, services/ai_processor.py)                   *)
(***************************************************************************)
MaxSessions == 1
MaxFiles == 2
MaxRequests == 1

Null == "null"
SessionIds == 1..MaxSessions
\* The ids a request may name: one more than can ever be created.
RequestedIds == 1..(MaxSessions + 1)
Requests == 1..MaxRequests

\* models.VideoSessionStatus and models.VideoCategory
Statuses == {"PENDING", "ACTIVE", "PROCESSING", "COMPLETED", "FAILED"}
VideoCategories == {"congratulation_video", "event_propagation_video",
                    "company_introduction_video", "general_video"}
\* What a client may send as category: nothing, a member, a non-member.
CategoryInputs == {Null, "congratulation_video", "birthday_video"}
PromptInputs == {Null, "prompt-a"}
PathInputs == {Null, "out.mp4"}
DefaultPrompt == "Create a video based on the uploaded documents"

\* A row of video_sessions with the column defaults of models.VideoSession.
NoSession == [status |-> "absent"]
DeletedSession == [status |-> "deleted"]
NewSession ==
    [status |-> "PENDING", user_prompt |-> Null, category |-> Null,
     total_files |-> 0, processed_files |-> 0, output_video_path |-> Null,
     video_url |-> Null]

\* crud.get_video_session(db, id) finds a row
Exists(t, id) == id \in SessionIds /\ t[id].status \notin {"absent", "deleted"}

\* The id the database gives the next row: ids are not used twice.
NewSessionId(t) == CHOOSE id \in SessionIds :
                       /\ t[id].status = "absent"
                       /\ \A j \in SessionIds : t[j].status = "absent" => id <= j

\* VideoCategory(category): ValueError for a non-member
IsVideoCategory(category) == category \in VideoCategories

\* crud.create_video_session: only user_id, session_name and description are
\* passed on to the row.
crud_create_video_session(t, user_prompt, category) ==
    [t EXCEPT ![NewSessionId(t)] = NewSession]

\* crud.update_video_session: the fields the update was built with (upd is a
\* record of exactly those, dict(exclude_unset=True)) are written, None
\* included; nothing happens when there is no such row.
crud_update_video_session(t, id, upd) ==
    IF Exists(t, id)
    THEN [t EXCEPT ![id] = [f \in DOMAIN t[id] |->
                               IF f \in DOMAIN upd THEN upd[f] ELSE t[id][f]]]
    ELSE t

crud_delete_video_session(t, id) ==
    IF Exists(t, id) THEN [t EXCEPT ![id] = DeletedSession] ELSE t

\* Files: content type and, for a PDF, whether its text can be fetched and
\* extracted.
FileKinds == {[kind |-> "pdf", readable |-> TRUE], [kind |-> "pdf", readable |-> FALSE],
              [kind |-> "image", readable |-> TRUE]}
FilesOf(fl, sid) == SelectSeq(fl, LAMBDA f : f.sid = sid)
get_files_count_by_video_session(fl, sid) == Len(FilesOf(fl, sid))
PdfsOf(fl, sid) == SelectSeq(fl, LAMBDA f : f.sid = sid /\ f.kind = "pdf")
ImagesOf(fl, sid) == SelectSeq(fl, LAMBDA f : f.sid = sid /\ f.kind = "image")

\* Error messages
PdfStageError == "Session PDF processing failed: database error"
ImageStageError == "database error"
AiError == "Rate limit exceeded"
AttributeErrorText == "object has no attribute 'get'"
PromptNotFound == "Video prompt not found in AI results"
SessionNotFound == "Failed to start processing: 404: Video session not found"
InvalidCategory == "Failed to start processing: 400: Invalid category"

\* AIProcessor._process_session_pdfs: the PDFs of the session, each
\* extracted or not; the whole stage fails when the file query fails (and
\* then the dictionary has no successful_extractions, read as 0 later).
_process_session_pdfs(fl, sid, db_ok) ==
    IF db_ok
    THEN [status |-> "success",
          pdf_files_processed |-> Len(PdfsOf(fl, sid)),
          successful_extractions |->
              Len(SelectSeq(PdfsOf(fl, sid), LAMBDA f : f.readable)),
          error |-> ""]
    ELSE [status |-> "failed", pdf_files_processed |-> 0,
          successful_extractions |-> 0, error |-> PdfStageError]

\* AIProcessor._process_session_images: a failed lookup comes back from the
\* image service as status "error" and is reported as a success without image.
_process_session_images(fl, sid, db_ok) ==
    IF db_ok /\ Len(ImagesOf(fl, sid)) > 0
    THEN [status |-> "success", has_image |-> TRUE, lookup_error |-> ""]
    ELSE [status |-> "success", has_image |-> FALSE,
          lookup_error |-> IF db_ok THEN "" ELSE ImageStageError]

\* What _generate_ai_prompts returns: success with an object as data, success
\* with data that is no object (the reply was JSON, but a list, a string,
\* null), or a failure with data None.
AiResults ==
    {[success |-> TRUE, data |-> "dict", error |-> ""],
     [success |-> TRUE, data |-> "other", error |-> ""],
     [success |-> FALSE, data |-> "none", error |-> AiError]}

\* AIProcessor._update_session_with_results
_update_session_with_results(t, s, ai) ==
    crud_update_video_session(t, s.sid,
        [status |-> IF s.pdf.status = "success" /\ s.image.status = "success"
                        /\ ai.success
                    THEN "COMPLETED" ELSE "FAILED",
         user_prompt |-> s.user_prompt,
         category |-> s.category,
         processed_files |-> s.pdf.successful_extractions])

\* The dictionary process_video_session returns after the session update:
\* ai_results.get("data", {}).get(...) raises when data is no object, and the
\* except branch answers instead.
CompiledResults(s, ai) ==
    [status |-> "completed",
     prompts_generated |-> [video_prompt |-> "video prompt", audio_prompt |-> "audio prompt"],
     user_prompt |-> s.user_prompt, category |-> s.category]
FailedResults(msg) == [status |-> "failed", error |-> msg]
ProcessResults(s, ai) ==
    IF ai.data = "dict" THEN CompiledResults(s, ai) ELSE FailedResults(AttributeErrorText)

\* The tail of process_video_session on the session table: the update with
\* the results and, when compiling the results raised, the update to FAILED.
ProcessTail(t, s, ai) ==
    LET t1 == _update_session_with_results(t, s, ai)
    IN IF ai.data = "dict" THEN t1
       ELSE crud_update_video_session(t1, s.sid, [status |-> "FAILED"])

\* extract_veo3_inputs: the prompts are looked up under the key "prompts".
extract_veo3_inputs(ai_results) ==
    LET prompts == IF "prompts" \in DOMAIN ai_results THEN ai_results.prompts
                   ELSE <<>>
        video_prompt == IF "video_prompt" \in DOMAIN prompts THEN prompts.video_prompt
                        ELSE Null
    IN IF video_prompt \in {Null, ""}
       THEN [success |-> FALSE, error |-> PromptNotFound]
       ELSE [success |-> TRUE, error |-> ""]

\* A request: the endpoint, where its handler stands, its arguments (for
\* start-processing as the pipeline uses them), the stage results, and the
\* response with the session row as it was when the handler returned.
NoPdfResults == [status |-> "none", pdf_files_processed |-> 0,
                 successful_extractions |-> 0, error |-> ""]
NoImageResults == [status |-> "none", has_image |-> FALSE, lookup_error |-> ""]
NoAiResults == [success |-> FALSE, data |-> "unset", error |-> ""]
NoResponse == [http |-> 0, status |-> "", error |-> "", persisted |-> "",
               processed_files |-> -1]
\* What process_video_session returned as status, and the status of the
\* session row at that moment.
NoRun == [status |-> "", persisted |-> ""]
IdleRequest ==
    [pc |-> "idle", endpoint |-> "", sid |-> 0, user_prompt |-> Null, category |-> Null,
     pdf |-> NoPdfResults, image |-> NoImageResults, ai |-> NoAiResults,
     run |-> NoRun, resp |-> NoResponse]

\* raise HTTPException(...) inside the handler's try: caught by its own
\* except Exception and sent as 500.
Rejected(sid, msg) ==
    [IdleRequest EXCEPT !.pc = "done", !.endpoint = "start-processing", !.sid = sid,
        !.resp = [NoResponse EXCEPT !.http = 500, !.error = msg]]

\* The answer of a handler that runs without yielding.
Answer(endpoint, sid, category, http, error) ==
    [IdleRequest EXCEPT !.pc = "done", !.endpoint = endpoint, !.sid = sid,
        !.category = category,
        !.resp = [NoResponse EXCEPT !.http = http, !.error = error]]

\* except Exception as e: raise HTTPException(status_code=500, detail=f"...: {e}")
\* around the whole handler body: it also catches the HTTPException raised in
\* the body, whose str() is "<status_code>: <detail>".
CreateFailure(detail) == [http |-> 500, error |-> "Failed to create video session: " \o detail]
CompleteFailure(detail) == [http |-> 500, error |-> "Failed to complete session: " \o detail]
FilesFailure(detail) == [http |-> 500, error |-> "Failed to get session files: " \o detail]

Persisted(t, sid) ==
    IF Exists(t, sid) THEN t[sid].status ELSE "absent"
PersistedFiles(t, sid) ==
    IF Exists(t, sid) THEN t[sid].processed_files ELSE -1

\* A handler that answers without the writes of the pipeline's tail and of
\* its own failure branch.
FinishWithoutWrites(t, s, ai) ==
    [table |-> t,
     request |-> [s EXCEPT !.pc = "done", !.ai = ai,
                     !.resp = [http |-> 200, status |-> "failed", error |-> PromptNotFound,
                               persisted |-> Persisted(t, s.sid),
                               processed_files |-> PersistedFiles(t, s.sid)]]]

\* The handler after process_video_session returned.
FinishProcessing(t, s, ai) ==
    LET t1 == ProcessTail(t, s, ai)
        veo3_inputs == extract_veo3_inputs(ProcessResults(s, ai))
        t2 == IF veo3_inputs.success THEN t1
              ELSE crud_update_video_session(t1, s.sid, [status |-> "FAILED"])
    IN [table |-> t2,
        request |-> [s EXCEPT !.pc = "done", !.ai = ai,
                        !.run = [status |-> ProcessResults(s, ai).status,
                                 persisted |-> Persisted(t1, s.sid)],
                        !.resp = [http |-> 200,
                                  status |-> IF veo3_inputs.success THEN "completed"
                                             ELSE "failed",
                                  error |-> veo3_inputs.error,
                                  persisted |-> Persisted(t2, s.sid),
                                  processed_files |-> PersistedFiles(t2, s.sid)]]]

(***************************************************************************)
(* The LLM adapter (services/openai_service.py): the reply of the chat     *)
(* completion is a text of up to MaxLen tokens, or no text at all          *)
(***************************************************************************)
MaxLen == 3

StringToken == "\"s\""
EmptyStringToken == "\"\""
VideoPromptToken == "\"video_prompt\""
AudioPromptToken == "\"audio_prompt\""
StringTokens == {StringToken, EmptyStringToken, VideoPromptToken, AudioPromptToken}
ScalarTokens == StringTokens \cup {"1", "NaN"}
Tokens == {"{", "}", "[", "]", ":", ","} \cup ScalarTokens \cup {"text"}

RECURSIVE TextsUpTo(_)
TextsUpTo(n) ==
    IF n = 0 THEN {<<>>}
    ELSE LET prev == TextsUpTo(n - 1)
         IN prev \cup {Append(t, x) : t \in {u \in prev : Len(u) = n - 1}, x \in Tokens}

\* message.content: a string, or None
NoContent == [none |-> TRUE, toks |-> <<>>]
Content(toks) == [none |-> FALSE, toks |-> toks]
\* The replies the system prompt asks for: an object with both prompts, the
\* video prompt a text or the empty string.
PromptsObject(video_prompt) ==
    <<"{", VideoPromptToken, ":", video_prompt, ",", AudioPromptToken, ":", StringToken, "}">>
ExpectedTexts == {PromptsObject(StringToken), PromptsObject(EmptyStringToken)}
Contents == {Content(t) : t \in TextsUpTo(MaxLen) \cup ExpectedTexts} \cup {NoContent}

\* The string a token sequence stands for.
RECURSIVE Text(_)
Text(toks) == IF toks = <<>> THEN "" ELSE Head(toks) \o Text(Tail(toks))

\* json.loads as a recursive-descent parser: each Parse... gives the position
\* after what it parsed from position i on, or 0 when there is no parse.
\* Python's parser also takes the literal NaN.
RECURSIVE ParseValue(_, _), ParseElements(_, _), ParseMembers(_, _)
ParseValue(t, i) ==
    IF i > Len(t) THEN 0
    ELSE IF t[i] \in ScalarTokens THEN i + 1
    ELSE IF t[i] = "[" THEN
            IF i + 1 <= Len(t) /\ t[i + 1] = "]" THEN i + 2 ELSE ParseElements(t, i + 1)
    ELSE IF t[i] = "{" THEN
            IF i + 1 <= Len(t) /\ t[i + 1] = "}" THEN i + 2 ELSE ParseMembers(t, i + 1)
    ELSE 0
ParseElements(t, i) ==
    LET j == ParseValue(t, i)
    IN IF j = 0 \/ j > Len(t) THEN 0
       ELSE IF t[j] = "]" THEN j + 1
       ELSE IF t[j] = "," THEN ParseElements(t, j + 1)
       ELSE 0
ParseMembers(t, i) ==
    IF i + 1 > Len(t) \/ t[i] \notin StringTokens \/ t[i + 1] # ":" THEN 0
    ELSE LET j == ParseValue(t, i + 2)
         IN IF j = 0 \/ j > Len(t) THEN 0
            ELSE IF t[j] = "}" THEN j + 1
            ELSE IF t[j] = "," THEN ParseMembers(t, j + 1)
            ELSE 0

\* The Python type of the parsed value.
ParsedType(t) ==
    CASE t[1] = "{" -> "dict"
      [] t[1] = "[" -> "list"
      [] t[1] \in StringTokens -> "str"
      [] t[1] = "1" -> "int"
      [] OTHER -> "float"

\* The Python string a string token stands for.
Unquoted(token) ==
    CASE token = StringToken -> "s"
      [] token = EmptyStringToken -> ""
      [] token = VideoPromptToken -> "video_prompt"
      [] OTHER -> "audio_prompt"

\* The value at position i of a parsed document: a string, or what str()
\* shows of a number, or a container.
ValueOf(t, i) ==
    IF t[i] \in StringTokens THEN Unquoted(t[i])
    ELSE IF t[i] \in {"[", "{"} THEN "container"
    ELSE t[i]

\* data.get(key) for the members of a parsed object from position i on: the
\* last member of that name counts, Null when there is none.
RECURSIVE MemberValue(_, _, _)
MemberValue(t, i, key) ==
    LET j == ParseValue(t, i + 2)
        later == IF t[j] = "," THEN MemberValue(t, j + 1, key) ELSE Null
    IN IF later # Null THEN later
       ELSE IF Unquoted(t[i]) = key THEN ValueOf(t, i + 2)
       ELSE Null
DataGet(t, key) ==
    IF t[1] = "{" /\ t[2] # "}" THEN MemberValue(t, 2, key) ELSE Null

\* json.loads(content): TypeError for None, JSONDecodeError for a text
\* that is no JSON document, the parsed value otherwise.
json_loads(content) ==
    IF content.none THEN [raised |-> "TypeError", type |-> ""]
    ELSE IF ParseValue(content.toks, 1) = Len(content.toks) + 1
         THEN [raised |-> "", type |-> ParsedType(content.toks)]
    ELSE [raised |-> "JSONDecodeError", type |-> ""]

\* The chat completion: an API error, or a reply with its content and with
\* or without usage figures.
Replies ==
    {[api_ok |-> FALSE, content |-> NoContent, usage |-> FALSE]}
        \cup {[api_ok |-> TRUE, content |-> c, usage |-> u] : c \in Contents, u \in BOOLEAN}

FormatWarning == "Response was not in expected JSON format"
NoResult ==
    [raised |-> FALSE, success |-> FALSE, warning |-> "", data |-> "none",
     video_prompt |-> Null, audio_prompt |-> Null, raw_response |-> Null,
     main_theme |-> "", error |-> ""]

\* except Exception as e: success False, data None
AdapterError(msg) == [NoResult EXCEPT !.error = msg]

\* The JSON was parsed: data is whatever it holds (here its type, and what
\* data.get gives for the two prompts when it is an object).
Parsed(content, type) ==
    [NoResult EXCEPT !.success = TRUE, !.data = type,
        !.video_prompt = DataGet(content.toks, "video_prompt"),
        !.audio_prompt = DataGet(content.toks, "audio_prompt"),
        !.raw_response = Text(content.toks)]

\* A stand-in that reports the unparsable reply as a failure.
FallbackFails(content, main_theme) == AdapterError(FormatWarning)

\* except json.JSONDecodeError: the raw content becomes both prompts.
Fallback(content, main_theme) ==
    [NoResult EXCEPT !.success = TRUE, !.data = "dict",
        !.video_prompt = Text(content.toks), !.audio_prompt = Text(content.toks),
        !.raw_response = Text(content.toks), !.main_theme = main_theme,
        !.warning = FormatWarning]

\* From the API call to the return, the same in both operations but for the
\* analysis block of the fallback.
Analyze(reply, main_theme) ==
    IF ~reply.api_ok THEN AdapterError("API error")
    ELSE LET parsed == json_loads(reply.content)
         IN IF parsed.raised = "JSONDecodeError" THEN Fallback(reply.content, main_theme)
            ELSE IF parsed.raised # "" THEN AdapterError(parsed.raised)
            ELSE IF ~reply.usage THEN AdapterError("AttributeError")
            ELSE Parsed(reply.content, parsed.type)

NotAnalyzed == [called |-> FALSE, fn |-> "", res |-> NoResult]

(***************************************************************************)
(* The result fetcher (VEO3Service.download_video): the files under the    *)
(* generated-video directory, one per video id                             *)
(***************************************************************************)
MaxVideoIds == 2
MaxChunks == 2
VideoIds == 1..MaxVideoIds
HttpStatuses == {200, 304, 404, 500}

NoFile == [exists |-> FALSE, chunks |-> 0]
EmptyFile == [exists |-> TRUE, chunks |-> 0]

NoDownloadResult == [success |-> FALSE, error |-> "", file_size |-> -1]
DownloadFailed(msg) == [success |-> FALSE, error |-> "Failed to download video: " \o msg,
                        file_size |-> -1]
Downloaded(size) == [success |-> TRUE, error |-> "", file_size |-> size]

\* response.raise_for_status(): ClientResponseError for a status of 400 and above
raise_for_status(status) == status >= 400

NoDownload == [pc |-> "idle", id |-> 0, status |-> 0, left |-> 0,
               result |-> NoDownloadResult]

(***************************************************************************)
(* One generation attempt (VEO3Service.generate_video_complete) and the    *)
(* task creation it begins with (create_video_task).  A returned           *)
(* dictionary is a record; keys is the set of its keys, and a field whose  *)
(* key is not in keys holds a filler.                                      *)
(***************************************************************************)
NoResultDict ==
    [raised |-> FALSE, success |-> FALSE, error |-> "", keys |-> {}, task_id |-> "",
     response_data |-> NoStatusResponse]

\* if not self.api_key: raise ValueError(...), before the try
CreateKeyMissing ==
    [NoResultDict EXCEPT !.raised = TRUE, !.error = "VEO3 API key not found"]

\* except Exception as e: "Failed to create video task: {e}"
CreateFailed(msg) ==
    [NoResultDict EXCEPT !.error = "Failed to create video task: " \o msg,
                         !.keys = {"success", "error", "prompt", "model"}]

\* if not task_id: "Failed to extract task ID from response: {response_data}"
NoTaskId(r) ==
    [NoResultDict EXCEPT !.error = "Failed to extract task ID from response",
                         !.keys = {"success", "error", "response_data"},
                         !.response_data = r]

TaskCreated(id, r) ==
    [NoResultDict EXCEPT !.success = TRUE, !.task_id = id, !.response_data = r,
                         !.keys = {"success", "task_id", "prompt", "model",
                                   "response_data"}]

\* The POST got no JSON body back (a timeout, a refused connection, a body
\* that is not JSON): _make_request raises.
RequestFailed == [kind |-> "error"]

\* A creation that does not look at the extracted id before reporting success.
create_video_task_unchecked(key, r) ==
    IF ~key THEN CreateKeyMissing
    ELSE IF r = RequestFailed THEN CreateFailed("ClientError")
    ELSE LET o == _extract_task_id(r)
         IN IF o.raised THEN CreateFailed("AttributeError")
            ELSE TaskCreated(IF Truthy(o.v) THEN PyStr(o.v) ELSE "", r)

\* create_video_task: key is whether the API key is set, r the decoded body
\* of the answer to the POST.
create_video_task(key, r) ==
    IF ~key THEN CreateKeyMissing
    ELSE IF r = RequestFailed THEN CreateFailed("ClientError")
    ELSE LET o == _extract_task_id(r)
         IN IF o.raised THEN CreateFailed("AttributeError")
            ELSE IF ~Truthy(o.v) THEN NoTaskId(r)
            ELSE TaskCreated(PyStr(o.v), r)

\* What generate_video_complete returns.  of names the call whose dictionary
\* it is: the result of a failed step is handed back as it is.
NoGenerateResult == [returned |-> FALSE, of |-> "", d |-> NoResultDict]
Returned(of, d) == [returned |-> TRUE, of |-> of, d |-> d]

\* except Exception as e: "Video generation workflow failed: {e}"
WorkflowFailed(msg) ==
    [NoResultDict EXCEPT !.error = "Video generation workflow failed: " \o msg,
                         !.keys = {"success", "error", "prompt", "video_id"}]

\* The dictionary poll_task_status returned, as the caller holds it.
PollKeys(kind) ==
    CASE kind = "timeout" -> {"success", "error", "task_id", "elapsed_seconds"}
      [] kind = "missing_result" -> {"success", "error", "task_id", "response_data"}
      [] kind = "failed" -> {"success", "error", "status", "task_id", "response_data"}
      [] kind = "completed" -> {"success", "status", "video_url", "task_id",
                                "elapsed_seconds", "response_data"}
      [] OTHER -> {"success", "error", "task_id"}
PollDict(o, id) ==
    [NoResultDict EXCEPT !.raised = (o.kind = "raised"), !.success = o.success,
                         !.error = o.error, !.keys = PollKeys(o.kind),
                         !.task_id = id, !.response_data = o.response_data]

\* The dictionary download_video returned.
DownloadDict(o) ==
    [NoResultDict EXCEPT !.success = o.success, !.error = o.error,
                         !.keys = IF o.success
                                  THEN {"success", "output_path", "file_size",
                                        "video_url", "video_id"}
                                  ELSE {"success", "error", "video_url", "video_id"}]

\* "Video generated successfully"
GenerateSucceeded(id) ==
    [NoResultDict EXCEPT !.success = TRUE, !.task_id = id,
                         !.keys = {"success", "message", "task_id", "output_path",
                                   "file_size", "video_url", "video_id", "prompt",
                                   "model", "elapsed_seconds"}]

NoGeneration == [pc |-> "idle", posts |-> 0, result |-> NoGenerateResult]

(***************************************************************************)
(* File deletion (routers/files.py delete_file): the files table and the   *)
(* bucket, by file id                                                      *)
(***************************************************************************)
MaxStoredFiles == 3
FileIds == 1..MaxStoredFiles
\* The ids a request may name: one more than there are files.
RequestedFileIds == 1..(MaxStoredFiles + 1)

\* crud.get_file(db, file_id) finds a row
HasRow(rows, id) == id \in FileIds /\ rows[id]

\* storage_service.delete_file: blob.delete() raises when the request fails
\* and when there is no such object; every exception becomes a RuntimeError.
storage_delete_file(objects, id, reached) ==
    IF reached /\ objects[id]
    THEN [raised |-> FALSE, objects |-> [objects EXCEPT ![id] = FALSE]]
    ELSE [raised |-> TRUE, objects |-> objects]

\* crud.delete_file: db.delete and db.commit, which raises when the database
\* fails.
crud_delete_file(rows, id, db_ok) ==
    IF ~db_ok THEN [raised |-> TRUE, rows |-> rows]
    ELSE [raised |-> FALSE, rows |-> IF HasRow(rows, id) THEN [rows EXCEPT ![id] = FALSE]
                                     ELSE rows]

NoFileDelete == [id |-> 0, http |-> 0, error |-> ""]
\* except Exception as e: raise HTTPException(status_code=500, ...)
FileDeleteFailed(id, msg) ==
    [id |-> id, http |-> 500, error |-> "Failed to delete file: " \o msg]
FileDeleted(id) == [id |-> id, http |-> 200, error |-> ""]

(***************************************************************************)
(* The prompt builder (AIProcessor._generate_ai_prompts and the request    *)
(* each analysis operation of the LLM adapter sends).  A document text is  *)
(* a sequence of characters.                                               *)
(***************************************************************************)
PdfContentLimit == 6000
MaxOver == 2

\* Character i of a document text of each kind: only white space, words
\* of two letters, or a run of digits.
TextKinds == {"blank", "words", "digits"}
CharAt(kind, i) ==
    CASE kind = "blank" -> " "
      [] kind = "words" -> (IF i % 3 = 1 THEN "a" ELSE IF i % 3 = 2 THEN "b" ELSE " ")
      [] OTHER -> (IF i % 2 = 1 THEN "1" ELSE "2")
TextOf(kind, n) == [i \in 1..n |-> CharAt(kind, i)]
\* The lengths around the limit, and the short ones.
DocumentLengths ==
    {0, 1, PdfContentLimit - 1} \cup (PdfContentLimit .. (PdfContentLimit + MaxOver))
DocumentTexts == {TextOf(k, n) : k \in TextKinds, n \in DocumentLengths}
ImageLists == {<<>>, <<"https://storage/signed">>}

\* s.strip() != ""
StripsToNonEmpty(text) == \E i \in 1..Len(text) : text[i] # " "
\* s[:n]
Slice(text, n) == SubSeq(text, 1, IF Len(text) < n THEN Len(text) ELSE n)

\* The opening words of each context and of the general system prompt.
CONGRATULATION_VIDEO_CONTEXT == "You are creating a dynamic congratulation video card"
EVENT_PROPAGATION_VIDEO_CONTEXT == "You are creating a dynamic event promotional video"
COMPANY_INTRODUCTION_VIDEO_CONTEXT == "You are creating an animated company introduction video"
GENERAL_VIDEO_CONTEXT == "You are creating a general purpose video"
CONTENT_ANALYSIS_SYSTEM_PROMPT ==
    "You are a professional creative content analyst and VEO3 prompt engineer."

get_video_category_context(category) ==
    CASE category = "congratulation_video" -> CONGRATULATION_VIDEO_CONTEXT
      [] category = "event_propagation_video" -> EVENT_PROPAGATION_VIDEO_CONTEXT
      [] category = "company_introduction_video" -> COMPANY_INTRODUCTION_VIDEO_CONTEXT
      [] OTHER -> GENERAL_VIDEO_CONTEXT

get_pdf_analysis_system_prompt(category_context) ==
    "You are a professional creative content analyst and VEO3 prompt engineer "
        \o "specializing in document-based video creation. " \o category_context

\* The f-string of the user message: the instructions and the document text
\* between its fixed lines.
get_pdf_analysis_user_message(user_prompt, pdf_content) ==
    [head |-> "User Instructions: " \o user_prompt, document |-> pdf_content]

\* A stand-in that submits the document text as it is.
whole_pdf_content(pdf_content) == pdf_content

\* pdf_content[:6000] if len(pdf_content) > 6000 else pdf_content
limited_pdf_content(pdf_content) ==
    IF Len(pdf_content) > PdfContentLimit THEN Slice(pdf_content, PdfContentLimit)
    ELSE pdf_content

NoLlmRequest == [fn |-> "", system |-> "", user |-> [head |-> "", document |-> <<>>]]

\* The messages analyze_pdf_content_and_generate_prompts submits.
PdfAnalysisRequest(user_prompt, pdf_content, category) ==
    [fn |-> "analyze_pdf_content_and_generate_prompts",
     system |-> get_pdf_analysis_system_prompt(get_video_category_context(category)),
     user |-> get_pdf_analysis_user_message(user_prompt, limited_pdf_content(pdf_content))]

\* The messages analyze_and_generate_prompts submits (no user_context).
ContentAnalysisRequest(user_input) ==
    [fn |-> "analyze_and_generate_prompts",
     system |-> CONTENT_ANALYSIS_SYSTEM_PROMPT,
     user |-> [head |-> "User input: " \o user_input, document |-> <<>>]]

\* _generate_ai_prompts: the operation it calls, and with what.
GeneratedRequest(user_prompt, pdf_content, images, category) ==
    LET has_pdf == pdf_content # <<>> /\ StripsToNonEmpty(pdf_content)
        has_images == images # <<>> /\ Len(images) > 0
    IN IF ~has_pdf /\ ~has_images THEN ContentAnalysisRequest(user_prompt)
       ELSE IF has_pdf THEN PdfAnalysisRequest(user_prompt, pdf_content, category)
       ELSE ContentAnalysisRequest(user_prompt)

NoPromptRun ==
    [pc |-> "idle", user_prompt |-> "", pdf_content |-> <<>>, images |-> <<>>,
     category |-> Null, direct |-> FALSE, req |-> NoLlmRequest]

(***************************************************************************)
(* The signed-URL endpoint (routers/files.py get_download_url) and the     *)
(* download counter of one file                                            *)
(***************************************************************************)
MaxDownloads == 3
MaxCount == 2
DownloadRequests == 1..MaxDownloads

NoUrlRequest == [pc |-> "idle", http |-> 0]

\* A stand-in that leaves the counter as it is.
keep_download_count(file) == file

\* crud.update_file_download_count: db_file.download_count += 1 and commit,
\* when the row exists.
update_file_download_count(file) ==
    IF file.exists THEN [file EXCEPT !.download_count = @ + 1] ELSE file

\* The body of get_download_url, which holds no await: the row is read, the
\* URL is signed and the counter is written before another request's
\* handler runs.  A missing row or a signing error ends as 500.
get_download_url(file, signed) ==
    IF ~file.exists THEN [file |-> file, http |-> 500]
    ELSE IF ~signed THEN [file |-> file, http |-> 500]
    ELSE [file |-> update_file_download_count(file), http |-> 200]

NoCounting ==
    [file |-> [exists |-> FALSE, download_count |-> 0], before |-> 0,
     reqs |-> [i \in DownloadRequests |-> NoUrlRequest]]

(***************************************************************************)
(* Text to speech (tts_service.py process_tts_request) and the audios      *)
(* table                                                                   *)
(***************************************************************************)
MaxAudios == 2
MaxBytes == 2
AudioFormats == {"MP3", "WAV", Null}
AudioStatuses == {"pending", "processing", "completed", "failed"}

\* crud.create_audio: the new row takes the column defaults, status PENDING
\* among them, and the next id.
create_audio(audios) ==
    Append(audios, [status |-> "pending", file_path |-> Null, file_size |-> Null])

\* crud.update_audio with the fields that were set
update_audio(audios, id, fields) ==
    IF id \in DOMAIN audios
    THEN [audios EXCEPT ![id] = [f \in DOMAIN @ |->
                                    IF f \in DOMAIN fields THEN fields[f] ELSE @[f]]]
    ELSE audios

\* file_extension = audio_format.lower(); f"audio_files/{id}.{file_extension}"
Lowered(audio_format) == IF audio_format = "MP3" THEN "mp3" ELSE "wav"
AudioPath(id, audio_format) == "audio_files/" \o ToString(id) \o "." \o Lowered(audio_format)

\* A stand-in that leaves the record as it is when the call fails.
fail_silently(t) == [t EXCEPT !.pc = "raised"]

\* except Exception as e: the status becomes FAILED and e is raised again.
fail_tts_request(t) ==
    [t EXCEPT !.pc = "raised",
        !.audios = update_audio(t.audios, t.id, [status |-> "failed"])]

NoTts ==
    [pc |-> "idle", audios |-> <<>>, id |-> 0, audio_format |-> Null,
     audio_content |-> -1, saved |-> FALSE, disk |-> {}]
(***************************************************************************)
(* The image stage (services/image_service.py process_session_image and    *)
(* AIProcessor._process_session_images) on the file rows of one session    *)
(***************************************************************************)
MaxImageFiles == 2
ContentTypes == {"image/png", "application/pdf", Null}
PublicUrl == "https://storage.googleapis.com/bucket/file"

\* The row the upload endpoint creates: public_url only when is_public.
FileRow(content_type, is_public) ==
    [content_type |-> content_type, gcs_filename |-> "file",
     public_url |-> IF is_public THEN PublicUrl ELSE Null]
FileRows == {FileRow(c, p) : c \in ContentTypes, p \in BOOLEAN}
RECURSIVE RowLists(_)
RowLists(n) ==
    IF n = 0 THEN {<<>>}
    ELSE LET prev == RowLists(n - 1)
         IN prev \cup {Append(l, r) : l \in {x \in prev : Len(x) = n - 1}, r \in FileRows}

\* f.content_type and f.content_type.startswith("image/")
IsImage(f) == f.content_type = "image/png"

NoImageResult ==
    [status |-> "none", has_image |-> FALSE, image_url |-> Null, error |-> ""]

\* ImageProcessor.process_session_image: the first image row of the session
\* and its public_url; an error of the file query is caught and reported.
process_session_image(rows, db_ok) ==
    LET image_files == SelectSeq(rows, IsImage)
    IN IF ~db_ok
       THEN [NoImageResult EXCEPT !.status = "error", !.error = ImageStageError]
       ELSE IF image_files = <<>>
       THEN [NoImageResult EXCEPT !.status = "success"]
       ELSE [NoImageResult EXCEPT !.status = "success", !.has_image = TRUE,
                                  !.image_url = image_files[1].public_url]

\* AIProcessor._process_session_images: the list handed to the prompt step.
images_passed_on(image_result) ==
    IF image_result.status = "success" /\ image_result.has_image
    THEN [status |-> "success", has_image |-> TRUE, images |-> <<image_result.image_url>>]
    ELSE [status |-> "success", has_image |-> FALSE, images |-> <<>>]

NoImageRun ==
    [pc |-> "idle", rows |-> <<>>, db_ok |-> TRUE, image_result |-> NoImageResult,
     image_results |-> [status |-> "none", has_image |-> FALSE, images |-> <<>>]]

(***************************************************************************)
(* Each specification leaves the other components' variables idle.         *)
(***************************************************************************)
NotCalled == [called |-> FALSE, raised |-> FALSE, v |-> NoneVal]
Called(o) == [called |-> TRUE, raised |-> o.raised, v |-> o.v]
NotPolled == [called |-> FALSE, out |-> Continue]
Polled(o) == [called |-> TRUE, out |-> o]

NoPollResult ==
    [done |-> FALSE, success |-> FALSE, kind |-> "pending", video_url |-> NoneVal,
     error |-> "", response_data |-> NoStatusResponse, elapsed_seconds |-> -1]
NoQueries == [n |-> 0, id |-> ""]
NoAnswers == [k |-> 0, clean |-> TRUE, last |-> "none", msg |-> NoneVal]

IdleCreate == cresp = NoStatusResponse /\ cout = NotCalled
IdleStatus == sresp = NoStatusResponse /\ sout = NotPolled
IdleSession ==
    /\ sessions = [id \in SessionIds |-> NoSession]
    /\ files = <<>>
    /\ sp = [i \in Requests |-> IdleRequest]
IdleLLM == lin = [api_ok |-> FALSE, content |-> NoContent, usage |-> FALSE] /\ lout = NotAnalyzed
IdleDownload == fs = [id \in VideoIds |-> NoFile] /\ dl = NoDownload
IdleGenerate == gen = NoGeneration
IdleFiles ==
    /\ file_rows = [id \in FileIds |-> FALSE]
    /\ blobs = [id \in FileIds |-> FALSE]
    /\ fdel = NoFileDelete
IdlePrompt == pm = NoPromptRun
IdleCount == dc = NoCounting
IdleTts == tts = NoTts
IdleImage == img = NoImageRun
IdleLate == IdlePrompt /\ IdleCount /\ IdleTts /\ IdleImage
IdlePoll ==
    /\ api_key = TRUE /\ task_id = "" /\ ppc = "idle"
    /\ now = 0 /\ start_time = 0
    /\ queried = NoQueries /\ hist = NoAnswers /\ pout = NoPollResult

(***************************************************************************)
(* SpecCreate: _extract_task_id on every creation response                 *)
(***************************************************************************)
InitCreate ==
    /\ cresp \in CreateResponses
    /\ cout = NotCalled
    /\ IdleStatus /\ IdlePoll /\ IdleSession /\ IdleLLM /\ IdleDownload /\ IdleGenerate
    /\ IdleFiles /\ IdleLate

ExtractTaskId ==
    /\ ~cout.called
    /\ cout' = Called(_extract_task_id(cresp))
    /\ UNCHANGED <<cresp, restCreate>>

NextCreate == ExtractTaskId

SpecCreate == InitCreate /\ [][NextCreate]_vars

(***************************************************************************)
(* SpecStatus: one pass of the polling loop body on every status response  *)
(***************************************************************************)
InitStatus ==
    /\ IsStatusResponse(sresp)
    /\ sout = NotPolled
    /\ IdleCreate /\ IdlePoll /\ IdleSession /\ IdleLLM /\ IdleDownload /\ IdleGenerate
    /\ IdleFiles /\ IdleLate

PollStatusOnce ==
    /\ ~sout.called
    /\ sout' = Polled(PollOnce(sresp))
    /\ UNCHANGED <<sresp, restStatus>>

NextStatus == PollStatusOnce

SpecStatus == InitStatus /\ [][NextStatus]_vars

(***************************************************************************)
(* SpecPoll: poll_task_status against a status endpoint that answers each  *)
(* query with any of the loop responses, or fails the request              *)
(***************************************************************************)
poll_interval_seconds == 5
max_wait_seconds == 15 * 60
timeout_seconds == 30

\* A request takes no time, or all the time _make_request allows it.
QueryDurations == {0, timeout_seconds}

LoopPaths == {<<"top", "status">>, <<"top", "error">>, <<"top", "video_url">>}
LoopStatusValues == {StrVal("Succeeded"), StrVal("FAILED"), StrVal("processing")}
LoopContainerKinds ==
    [k \in Containers |-> IF k = "detail" THEN {"absent", "other"} ELSE {"absent"}]
LoopResponses ==
    {r \in UNION {ObjectsWith(P, LoopContainerKinds) : P \in SUBSET LoopPaths} :
        /\ r.f[<<"top", "status">>] \in LoopStatusValues \cup {NoneVal}
        /\ r.f[<<"top", "video_url">>] \in {StrVal("url-a"), NoneVal}}
        \cup {NoStatusResponse}

\* The class of an answer, by what the JSON document says.
DocClass(r) ==
    IF DocStatus(r) \in SuccessStatuses THEN "success"
    ELSE IF DocStatus(r) \in FailureStatuses THEN "failure"
    ELSE "nonterminal"

\* What one answered query comes to: the class and message of the document,
\* and what the try block makes of it.
LoopAnswers ==
    {[class |-> DocClass(r), msg |-> DocError(r), out |-> PollOnce(r)] :
        r \in LoopResponses}

\* hist describes the run so far as the endpoint made it: last and msg are
\* the class and the message of the latest answer; clean says that before
\* it the endpoint gave non-terminal documents only, and k counts them.
Answered(h, class, msg) ==
    LET clean == h.clean /\ h.last \in {"none", "nonterminal"} /\ class # "request_error"
    IN [k |-> IF ~clean THEN 0 ELSE IF class = "nonterminal" THEN h.k + 1 ELSE h.k,
        clean |-> clean, last |-> class, msg |-> msg]

PollTaskId == IdNames[1]

InitPoll ==
    /\ api_key \in BOOLEAN
    /\ task_id = PollTaskId
    /\ ppc = "start"
    /\ now = 0 /\ start_time = 0
    /\ queried = NoQueries /\ hist = NoAnswers /\ pout = NoPollResult
    /\ IdleCreate /\ IdleStatus /\ IdleSession /\ IdleLLM /\ IdleDownload /\ IdleGenerate
    /\ IdleFiles /\ IdleLate

\* if not self.api_key: raise ValueError; start_time = loop.time()
StartPolling ==
    /\ ppc = "start"
    /\ IF api_key
       THEN /\ start_time' = now
            /\ ppc' = "loop"
            /\ pout' = pout
       ELSE /\ start_time' = start_time
            /\ ppc' = "done"
            /\ pout' = [NoPollResult EXCEPT !.done = TRUE, !.kind = "raised",
                           !.error = "VEO3 API key not found"]
    /\ UNCHANGED <<api_key, task_id, now, queried, hist, restPoll>>

\* A check that lets the loop run a minute longer.
TimedOutLate(elapsed_) == elapsed_ > max_wait_seconds + 60

\* if elapsed > self.max_wait_seconds
TimedOut(elapsed_) == elapsed_ > max_wait_seconds

\* except Exception as e (around the loop): "Polling failed: {e}", with no
\* elapsed time.
ReturnPollingFailed(elapsed_) ==
    [NoPollResult EXCEPT !.done = TRUE, !.kind = "polling_failed",
                         !.error = "Polling failed: timeout"]

\* The dictionary of the timeout check: "Task polling timeout after
\* {self.max_wait_seconds} seconds", task_id, elapsed_seconds.
ReturnTimeout(elapsed_) ==
    [NoPollResult EXCEPT !.done = TRUE, !.kind = "timeout",
                         !.error = "Task polling timeout after "
                                   \o ToString(max_wait_seconds) \o " seconds",
                         !.elapsed_seconds = elapsed_]

\* What the loop does with the outcome of the try block: return it, or go on
\* to the sleep.
AfterQuery(o, elapsed_) ==
    IF o.done
    THEN /\ ppc' = "done"
         /\ pout' = [done |-> TRUE, success |-> o.success, kind |-> o.kind,
                     video_url |-> o.video_url, error |-> o.error,
                     response_data |-> o.response_data,
                     elapsed_seconds |-> IF o.success THEN elapsed_ ELSE -1]
    ELSE /\ ppc' = "sleep"
         /\ pout' = pout

\* A loop that gives up on the first failed request.
PollingFailed ==
    [Continue EXCEPT !.done = TRUE, !.kind = "polling_failed", !.error = "Polling failed"]

\* The request of one pass fails (a timeout, a refused connection, a body
\* that is not JSON): "Polling error (will retry)".
RequestError == Continue

\* The id put in the query URL.
QueryId == task_id

\* One pass of the loop up to its sleep: the timeout check, and, when it
\* passes, the GET for the task and the handling of its answer.
PollPass ==
    /\ ppc = "loop"
    /\ LET elapsed_ == now - start_time
       IN IF TimedOut(elapsed_)
          THEN /\ ppc' = "done"
               /\ pout' = ReturnTimeout(elapsed_)
               /\ UNCHANGED <<now, queried, hist>>
          ELSE /\ queried' = [n |-> queried.n + 1, id |-> QueryId]
               /\ \E d \in QueryDurations : now' = now + d
               /\ \/ \E a \in LoopAnswers :
                       /\ hist' = Answered(hist, a.class, a.msg)
                       /\ AfterQuery(a.out, elapsed_)
                  \/ /\ hist' = Answered(hist, "request_error", NoneVal)
                     /\ AfterQuery(RequestError, elapsed_)
    /\ UNCHANGED <<api_key, task_id, start_time, restPoll>>

\* await asyncio.sleep(self.poll_interval_seconds)
Sleep ==
    /\ ppc = "sleep"
    /\ now' = now + poll_interval_seconds
    /\ ppc' = "loop"
    /\ UNCHANGED <<api_key, task_id, start_time, queried, hist, pout, restPoll>>

NextPoll == StartPolling \/ PollPass \/ Sleep

SpecPoll == InitPoll /\ [][NextPoll]_vars

\* The event loop resumes a coroutine whose request or sleep has ended.
SpecPollLive == SpecPoll /\ WF_vars(NextPoll)

(***************************************************************************)
(* SpecSession: the session endpoints and the start-processing pipeline,   *)
(* one step per stretch of a handler that runs without yielding            *)
(***************************************************************************)
InitSession ==
    /\ sessions = [id \in SessionIds |-> NoSession]
    /\ files = <<>>
    /\ sp = [i \in Requests |-> IdleRequest]
    /\ IdleCreate /\ IdleStatus /\ IdlePoll /\ IdleLLM /\ IdleDownload /\ IdleGenerate
    /\ IdleFiles /\ IdleLate

\* POST /video-sessions/
CreateSession ==
    /\ \E id \in SessionIds : sessions[id].status = "absent"
    /\ \E i \in Requests, user_prompt \in PromptInputs, category \in CategoryInputs :
          /\ sp[i].pc \in {"idle", "done"}
          /\ IF category # Null /\ ~IsVideoCategory(category)
             THEN LET f == CreateFailure("400: Invalid category")
                  IN /\ sessions' = sessions
                     /\ sp' = [sp EXCEPT ![i] = Answer("create", 0, category, f.http, f.error)]
             ELSE /\ sessions' = crud_create_video_session(sessions, user_prompt, category)
                  /\ sp' = [sp EXCEPT ![i] =
                               [Answer("create", NewSessionId(sessions), category, 200, "")
                                   EXCEPT !.user_prompt = user_prompt]]
    /\ UNCHANGED <<files, restSession>>

\* PUT /video-sessions/{session_id}
UpdateSession ==
    /\ \E sid \in RequestedIds :
          \E upd \in {[status |-> st] : st \in Statuses}
                        \cup {[user_prompt |-> p] : p \in PromptInputs} :
             sessions' = crud_update_video_session(sessions, sid, upd)
    /\ UNCHANGED <<files, sp, restSession>>

\* DELETE /video-sessions/{session_id}
DeleteSession ==
    /\ \E sid \in RequestedIds : sessions' = crud_delete_video_session(sessions, sid)
    /\ UNCHANGED <<files, sp, restSession>>

\* POST /video-sessions/{session_id}/complete
CompleteSession ==
    /\ \E i \in Requests, sid \in RequestedIds, output_video_path \in PathInputs :
          /\ sp[i].pc \in {"idle", "done"}
          /\ IF ~Exists(sessions, sid)
             THEN LET f == CompleteFailure("404: Video session not found")
                  IN /\ sessions' = sessions
                     /\ sp' = [sp EXCEPT ![i] = Answer("complete", sid, Null, f.http, f.error)]
             ELSE /\ sessions' = crud_update_video_session(sessions, sid,
                                     [status |-> "COMPLETED",
                                      output_video_path |-> output_video_path])
                  /\ sp' = [sp EXCEPT ![i] = Answer("complete", sid, Null, 200, "")]
    /\ UNCHANGED <<files, restSession>>

\* GET /video-sessions/{session_id}/files
GetSessionFiles ==
    /\ \E i \in Requests, sid \in RequestedIds :
          /\ sp[i].pc \in {"idle", "done"}
          /\ sp' = [sp EXCEPT ![i] =
                       IF ~Exists(sessions, sid)
                       THEN LET f == FilesFailure("404: Video session not found")
                            IN Answer("files", sid, Null, f.http, f.error)
                       ELSE Answer("files", sid, Null, 200, "")]
    /\ UNCHANGED <<sessions, files, restSession>>

\* POST /files/upload, from the creation of the file record on.
UploadFile ==
    /\ Len(files) < MaxFiles
    /\ \E sid \in RequestedIds, k \in FileKinds :
          LET fl == Append(files, [sid |-> sid, kind |-> k.kind, readable |-> k.readable])
          IN /\ files' = fl
             /\ sessions' = crud_update_video_session(sessions, sid,
                                [total_files |-> get_files_count_by_video_session(fl, sid)])
    /\ UNCHANGED <<sp, restSession>>

\* The image stage and the start of _generate_ai_prompts, up to the LLM call.
ImageStage(s, db_ok) ==
    [s EXCEPT !.pc = "llm", !.image = _process_session_images(files, s.sid, db_ok)]

\* POST /video-sessions/{session_id}/start-processing, up to the first point
\* where the pipeline waits: the download of the first PDF or, without
\* PDFs, the LLM call.
StartProcessingBy(i) ==
    /\ \E sid \in RequestedIds, user_prompt \in PromptInputs,
          category \in CategoryInputs :
          /\ sp[i].pc \in {"idle", "done"}
          /\ IF ~Exists(sessions, sid)
             THEN /\ sp' = [sp EXCEPT ![i] = Rejected(sid, SessionNotFound)]
                  /\ sessions' = sessions
             ELSE IF category # Null /\ ~IsVideoCategory(category)
             THEN /\ sp' = [sp EXCEPT ![i] = [Rejected(sid, InvalidCategory)
                                                 EXCEPT !.category = category]]
                  /\ sessions' = sessions
             ELSE \E pdf_db_ok \in BOOLEAN, image_db_ok \in BOOLEAN :
                  LET pdf == _process_session_pdfs(files, sid, pdf_db_ok)
                      s == [IdleRequest EXCEPT
                               !.endpoint = "start-processing",
                               !.sid = sid,
                               !.user_prompt = IF user_prompt # Null THEN user_prompt
                                               ELSE DefaultPrompt,
                               !.category = category,
                               !.pdf = pdf]
                  IN /\ sessions' = crud_update_video_session(sessions, sid,
                                        [user_prompt |-> user_prompt,
                                         category |-> category,
                                         status |-> "PROCESSING"])
                     /\ sp' = [sp EXCEPT ![i] =
                                  IF pdf.pdf_files_processed > 0
                                  THEN [s EXCEPT !.pc = "pdf"]
                                  ELSE ImageStage(s, image_db_ok)]
    /\ UNCHANGED <<files, restSession>>

StartProcessing == \E i \in Requests : StartProcessingBy(i)

\* The PDFs have been fetched: the image stage follows at once.
PdfsFetchedBy(i) ==
    /\ \E image_db_ok \in BOOLEAN :
          /\ sp[i].pc = "pdf"
          /\ sp' = [sp EXCEPT ![i] = ImageStage(sp[i], image_db_ok)]
    /\ UNCHANGED <<sessions, files, restSession>>

\* The LLM call has ended: the session update, the rest of
\* process_video_session and the rest of the handler.
PdfsFetched == \E i \in Requests : PdfsFetchedBy(i)

LlmReturnedBy(i) ==
    /\ \E ai \in AiResults :
          /\ sp[i].pc = "llm"
          /\ LET fin == FinishProcessing(sessions, sp[i], ai)
             IN /\ sessions' = fin.table
                /\ sp' = [sp EXCEPT ![i] = fin.request]
    /\ UNCHANGED <<files, restSession>>

LlmReturned == \E i \in Requests : LlmReturnedBy(i)

NextSession ==
    \/ CreateSession \/ UpdateSession \/ DeleteSession \/ CompleteSession
    \/ GetSessionFiles
    \/ UploadFile \/ StartProcessing \/ PdfsFetched \/ LlmReturned

SpecSession == InitSession /\ [][NextSession]_vars

(***************************************************************************)
(* SpecRace: two clients sending start-processing requests for one session *)
(* that has been created and has its files                                 *)
(***************************************************************************)
RaceRequests == 1..2
RaceFiles ==
    {<<>>, <<[sid |-> 1, kind |-> "pdf", readable |-> TRUE]>>}

InitRace ==
    /\ files \in RaceFiles
    /\ sessions = [id \in SessionIds |->
                      IF id = 1
                      THEN [NewSession EXCEPT
                               !.total_files = get_files_count_by_video_session(files, 1)]
                      ELSE NoSession]
    /\ sp = [i \in RaceRequests |-> IdleRequest]
    /\ IdleCreate /\ IdleStatus /\ IdlePoll /\ IdleLLM /\ IdleDownload /\ IdleGenerate
    /\ IdleFiles /\ IdleLate

NextRace ==
    \E i \in RaceRequests :
        StartProcessingBy(i) \/ PdfsFetchedBy(i) \/ LlmReturnedBy(i)

SpecRace == InitRace /\ [][NextRace]_vars

(***************************************************************************)
(* SpecRun: one client sending start-processing requests for one session,  *)
(* while the session is being changed through PUT                          *)
(***************************************************************************)
InitRun ==
    /\ files \in RaceFiles
    /\ sessions = [id \in SessionIds |->
                      IF id = 1
                      THEN [NewSession EXCEPT
                               !.total_files = get_files_count_by_video_session(files, 1)]
                      ELSE NoSession]
    /\ sp = [i \in Requests |-> IdleRequest]
    /\ IdleCreate /\ IdleStatus /\ IdlePoll /\ IdleLLM /\ IdleDownload /\ IdleGenerate
    /\ IdleFiles /\ IdleLate

NextRun == StartProcessing \/ PdfsFetched \/ LlmReturned \/ UpdateSession

SpecRun == InitRun /\ [][NextRun]_vars

\* The event loop resumes a handler whose download or LLM call has ended;
\* both calls have a time limit.
SpecRunLive ==
    SpecRun /\ \A i \in Requests : WF_vars(PdfsFetchedBy(i)) /\ WF_vars(LlmReturnedBy(i))

(***************************************************************************)
(* SpecLLM: the two analysis operations on every reply                     *)
(***************************************************************************)
InitLLM ==
    /\ lin \in Replies
    /\ lout = NotAnalyzed
    /\ IdleCreate /\ IdleStatus /\ IdlePoll /\ IdleSession /\ IdleDownload /\ IdleGenerate
    /\ IdleFiles /\ IdleLate

analyze_and_generate_prompts ==
    /\ ~lout.called
    /\ lout' = [called |-> TRUE, fn |-> "analyze_and_generate_prompts",
                res |-> Analyze(lin, "Parse failed")]
    /\ UNCHANGED <<lin, restLLM>>

analyze_pdf_content_and_generate_prompts ==
    /\ ~lout.called
    /\ lout' = [called |-> TRUE, fn |-> "analyze_pdf_content_and_generate_prompts",
                res |-> Analyze(lin, "Document-based content")]
    /\ UNCHANGED <<lin, restLLM>>

NextLLM == analyze_and_generate_prompts \/ analyze_pdf_content_and_generate_prompts

SpecLLM == InitLLM /\ [][NextLLM]_vars

(***************************************************************************)
(* SpecDownload: downloads one after the other into the video directory    *)
(***************************************************************************)
InitDownload ==
    /\ fs = [id \in VideoIds |-> NoFile]
    /\ dl = NoDownload
    /\ IdleCreate /\ IdleStatus /\ IdlePoll /\ IdleSession /\ IdleLLM /\ IdleGenerate
    /\ IdleFiles /\ IdleLate

\* download_video up to the first chunk: the GET, raise_for_status, and
\* the opening of the destination for writing.
StartDownload ==
    /\ dl.pc \in {"idle", "done"}
    /\ \E id \in VideoIds, connected \in BOOLEAN, status \in HttpStatuses,
          n \in 0..MaxChunks :
          IF ~connected
          THEN /\ dl' = [NoDownload EXCEPT !.pc = "done", !.id = id,
                            !.result = DownloadFailed("Cannot connect to host")]
               /\ fs' = fs
          ELSE IF raise_for_status(status)
          THEN /\ dl' = [NoDownload EXCEPT !.pc = "done", !.id = id, !.status = status,
                            !.result = DownloadFailed("ClientResponseError")]
               /\ fs' = fs
          ELSE /\ dl' = [NoDownload EXCEPT !.pc = "streaming", !.id = id,
                            !.status = status, !.left = n]
               /\ fs' = [fs EXCEPT ![id] = EmptyFile]
    /\ UNCHANGED restDownload

\* await file.write(chunk)
WriteChunk ==
    /\ dl.pc = "streaming" /\ dl.left > 0
    /\ fs' = [fs EXCEPT ![dl.id].chunks = @ + 1]
    /\ dl' = [dl EXCEPT !.left = @ - 1]
    /\ UNCHANGED restDownload

\* The body has ended: os.path.getsize and the success result.
FinishDownload ==
    /\ dl.pc = "streaming" /\ dl.left = 0
    /\ dl' = [dl EXCEPT !.pc = "done", !.result = Downloaded(fs[dl.id].chunks)]
    /\ UNCHANGED <<fs, restDownload>>

\* The stream breaks: the exception closes the file and the except branch
\* answers.
InterruptDownload ==
    /\ dl.pc = "streaming" /\ dl.left > 0
    /\ dl' = [dl EXCEPT !.pc = "done", !.result = DownloadFailed("Connection closed")]
    /\ UNCHANGED <<fs, restDownload>>

NextDownload == StartDownload \/ WriteChunk \/ FinishDownload \/ InterruptDownload

SpecDownload == InitDownload /\ [][NextDownload]_vars

(***************************************************************************)
(* SpecGenerate: one call of generate_video_complete; the polling and the  *)
(* download it awaits are the steps of SpecPoll and SpecDownload           *)
(***************************************************************************)
GenerateResponses == CreateResponses \cup {RequestFailed}

InitGenerate ==
    /\ cresp \in GenerateResponses
    /\ cout = NotCalled
    /\ api_key \in BOOLEAN
    /\ task_id = "" /\ ppc = "idle"
    /\ now = 0 /\ start_time = 0
    /\ queried = NoQueries /\ hist = NoAnswers /\ pout = NoPollResult
    /\ gen = [NoGeneration EXCEPT !.pc = "create"]
    /\ IdleStatus /\ IdleSession /\ IdleLLM /\ IdleDownload /\ IdleFiles
    /\ IdleFiles /\ IdleLate

\* Step 1: await self.create_video_task(...); if not create_result["success"]:
\* return create_result; task_id = create_result["task_id"]
GenCreate ==
    /\ gen.pc = "create"
    /\ LET create_result == create_video_task(api_key, cresp)
           posts == IF api_key THEN gen.posts + 1 ELSE gen.posts
       IN IF create_result.raised
          THEN /\ gen' = [pc |-> "done", posts |-> posts,
                          result |-> Returned("generate_video_complete",
                                              WorkflowFailed(create_result.error))]
               /\ UNCHANGED <<cresp, task_id, ppc>>
          ELSE IF ~create_result.success
          THEN /\ gen' = [pc |-> "done", posts |-> posts,
                          result |-> Returned("create_video_task", create_result)]
               /\ UNCHANGED <<cresp, task_id, ppc>>
          ELSE /\ gen' = [gen EXCEPT !.pc = "poll", !.posts = posts]
               /\ task_id' = create_result.task_id
               /\ ppc' = "start"
               /\ cresp' = NoStatusResponse
    /\ UNCHANGED <<cout, api_key, now, start_time, queried, hist, pout, statusVars,
                   sessionVars, llmVars, downloadVars, fileVars, lateVars>>

\* Step 2 has returned: if not poll_result["success"]: return poll_result;
\* video_url = poll_result["video_url"]
GenAfterPoll ==
    /\ gen.pc = "poll" /\ ppc = "done"
    /\ gen' = IF pout.kind = "raised"
              THEN [gen EXCEPT !.pc = "done",
                               !.result = Returned("generate_video_complete",
                                                   WorkflowFailed(pout.error))]
              ELSE IF ~pout.success
              THEN [gen EXCEPT !.pc = "done",
                               !.result = Returned("poll_task_status",
                                                   PollDict(pout, task_id))]
              ELSE [gen EXCEPT !.pc = "download"]
    \* the frame of the polling call and the record of its queries end with it
    /\ start_time' = 0 /\ queried' = NoQueries /\ hist' = NoAnswers
    /\ UNCHANGED <<api_key, task_id, ppc, now, pout, createVars, statusVars, sessionVars,
                   llmVars, downloadVars, fileVars, lateVars>>

\* Step 3: await self.download_video(video_url, output_video_id, format)
GenDownload ==
    /\ gen.pc = "download" /\ dl.pc = "idle"
    /\ StartDownload

\* Step 3 has returned: if not download_result["success"]: return
\* download_result; otherwise the complete result.
GenReturn ==
    /\ gen.pc = "download" /\ dl.pc = "done"
    /\ gen' = [gen EXCEPT !.pc = "done",
                          !.result = IF dl.result.success
                                     THEN Returned("generate_video_complete",
                                                   GenerateSucceeded(task_id))
                                     ELSE Returned("download_video",
                                                   DownloadDict(dl.result))]
    /\ UNCHANGED <<createVars, statusVars, pollVars, sessionVars, llmVars, downloadVars,
                   fileVars, lateVars>>

NextGenerate ==
    \/ GenCreate
    \/ StartPolling \/ PollPass \/ Sleep
    \/ GenAfterPoll
    \/ GenDownload \/ WriteChunk \/ FinishDownload \/ InterruptDownload
    \/ GenReturn

SpecGenerate == InitGenerate /\ [][NextGenerate]_vars

(***************************************************************************)
(* SpecFiles: calls of the file-delete endpoint on files that were         *)
(* uploaded (row and object) or never were                                 *)
(***************************************************************************)
restFiles ==
    <<createVars, statusVars, pollVars, sessionVars, llmVars, downloadVars, generateVars,
      lateVars>>

InitFiles ==
    /\ file_rows \in [FileIds -> BOOLEAN]
    /\ blobs = file_rows
    /\ fdel = NoFileDelete
    /\ IdleCreate /\ IdleStatus /\ IdlePoll /\ IdleSession /\ IdleLLM /\ IdleDownload
    /\ IdleGenerate /\ IdleLate

\* DELETE /files/{file_id}
DeleteFile ==
    /\ \E file_id \in RequestedFileIds, reached \in BOOLEAN, db_ok \in BOOLEAN :
          IF ~HasRow(file_rows, file_id)
          THEN /\ fdel' = FileDeleteFailed(file_id, "404: File not found")
               /\ UNCHANGED <<file_rows, blobs>>
          ELSE LET gcs == storage_delete_file(blobs, file_id, reached)
                   db == crud_delete_file(file_rows, file_id, db_ok)
               IN IF gcs.raised
                  THEN /\ fdel' = FileDeleteFailed(file_id, "Failed to delete file from GCS")
                       /\ UNCHANGED <<file_rows, blobs>>
                  ELSE /\ blobs' = gcs.objects
                       /\ file_rows' = db.rows
                       /\ fdel' = IF db.raised
                                  THEN FileDeleteFailed(file_id, "OperationalError")
                                  ELSE FileDeleted(file_id)
    /\ UNCHANGED restFiles

NextFiles == DeleteFile

SpecFiles == InitFiles /\ [][NextFiles]_vars

(***************************************************************************)
(* C1                                                                      *)
(***************************************************************************)
\* The identifier the documented probing order selects from the body.
CarriesId(r) ==
    \E i \in 1..Len(TaskIdCandidates) :
        Truthy(ValueAt(r, TaskIdCandidates[i][1], TaskIdCandidates[i][2]))

FirstCarriedId(r) ==
    LET i == CHOOSE i \in 1..Len(TaskIdCandidates) :
                /\ Truthy(ValueAt(r, TaskIdCandidates[i][1], TaskIdCandidates[i][2]))
                /\ \A j \in 1..(i - 1) :
                      ~Truthy(ValueAt(r, TaskIdCandidates[j][1], TaskIdCandidates[j][2]))
    IN PyStr(ValueAt(r, TaskIdCandidates[i][1], TaskIdCandidates[i][2]))

\* C1: for every creation response that is an object carrying a non-empty
\* identifier at one of the six candidate locations, _extract_task_id returns
\* the identifier at the first such location; a bare string is returned as is.
C1_ReturnsFirstIdentifier ==
    cout.called =>
        /\ (cresp.kind = "dict" /\ CarriesId(cresp)) =>
              (~cout.raised /\ cout.v = StrVal(FirstCarriedId(cresp)))
        /\ (cresp.kind = "str" /\ cresp.str # "") =>
              (~cout.raised /\ cout.v = StrVal(cresp.str))

(***************************************************************************)
(* C2                                                                      *)
(***************************************************************************)
\* C2: the poller returns success only for a response whose status is a
\* success synonym and that holds a result location, and then with that
\* location; for a success synonym without any location it returns the
\* missing-result failure.
C2_SuccessOnlyWithLocation ==
    sout.called =>
        /\ (sout.out.done /\ sout.out.success) =>
              /\ DocStatus(sresp) \in SuccessStatuses
              /\ Truthy(DocLocation(sresp))
              /\ sout.out.video_url = DocLocation(sresp)
        /\ (DocStatus(sresp) \in SuccessStatuses /\ ~Truthy(DocLocation(sresp))) =>
              (sout.out.done /\ ~sout.out.success /\ sout.out.kind = "missing_result")

(***************************************************************************)
(* C3                                                                      *)
(***************************************************************************)
C3_Step ==
    /\ (ppc = "loop" /\ ppc' = "done") =>
          \/ TimedOut(now - start_time) /\ pout'.kind = "timeout"
          \/ ~TimedOut(now - start_time) /\ hist'.last \in {"success", "failure"}
    /\ (ppc = "loop" /\ ~TimedOut(now - start_time)) =>
          /\ queried' = [n |-> queried.n + 1, id |-> task_id]
          /\ hist'.last \in {"nonterminal", "request_error"} => ppc' = "sleep"
    /\ ppc = "sleep" =>
          /\ ppc' = "loop" /\ now' = now + poll_interval_seconds
          /\ UNCHANGED <<task_id, queried, pout>>

\* C3: a pass of the loop returns only when the time is up or when the answer
\* carries a terminal-success or terminal-failure status; every pass that is
\* not timed out queries the status of the same task id; after an answer with
\* any other status or none, and after a failed query, the loop sleeps
\* poll_interval and starts the next pass.
C3_ExitsOnlyOnTerminalOrTimeout == [][C3_Step]_vars

\* A failed query was slept over and followed by further queries.
C3_Witness ==
    /\ ppc = "done" /\ pout.kind = "failed"
    /\ queried.n = 3 /\ queried.id = task_id
    /\ now - start_time = 2 * poll_interval_seconds

(***************************************************************************)
(* C4                                                                      *)
(***************************************************************************)
\* C4: poll_task_status returns no later than max_wait + poll_interval after
\* it was called.
C4_ReturnsWithinMaxWaitPlusInterval ==
    ppc = "done" => now - start_time <= max_wait_seconds + poll_interval_seconds

\* C4, as the code has it: the time check is made at the top of a pass only,
\* so a pass begun at max_wait still makes its query and sleeps: the call
\* returns no later than max_wait + the request timeout + poll_interval
\* after it began, and it always returns.
C4_ReturnsWithinBound ==
    /\ [](now - start_time <= max_wait_seconds + timeout_seconds + poll_interval_seconds)
    /\ <>(ppc = "done")

C4_Witness ==
    /\ ppc = "done" /\ pout.kind = "timeout"
    /\ now - start_time = max_wait_seconds + timeout_seconds + poll_interval_seconds

(***************************************************************************)
(* C5                                                                      *)
(***************************************************************************)
\* C5: when the endpoint has answered k non-terminal documents and then one
\* with a terminal-failure status and the error message m, poll_task_status
\* has returned a failure whose error is "Task failed: m", after exactly
\* k + 1 queries.
C5_FailureAfterKPlusOneQueries ==
    (hist.clean /\ hist.last = "failure" /\ Truthy(hist.msg)) =>
        /\ ppc = "done" /\ ~pout.success
        /\ pout.error = "Task failed: " \o PyStr(hist.msg)
        /\ queried.n = hist.k + 1

(***************************************************************************)
(* C6                                                                      *)
(***************************************************************************)
AllStagesSucceeded(s) ==
    /\ s.pdf.status = "success"
    /\ s.image.status = "success" /\ s.image.lookup_error = ""
    /\ s.ai.success /\ s.ai.data = "dict"

\* C6: when a start-processing request whose document extraction, image
\* lookup and content analysis all succeeded has returned, the session's
\* persisted status is COMPLETED and its processed_files is the number of
\* PDFs whose text was extracted.
C6_CompletedAfterSuccess ==
    \A i \in Requests :
        (/\ sp[i].pc = "done" /\ sp[i].resp.http = 200
         /\ AllStagesSucceeded(sp[i])
         /\ sp[i].resp.persisted # "absent") =>
            /\ sp[i].resp.persisted = "COMPLETED"
            /\ sp[i].resp.processed_files = sp[i].pdf.successful_extractions

(***************************************************************************)
(* C7                                                                      *)
(***************************************************************************)
\* The messages of the stages that failed in a run.
StageErrors(s) ==
    (IF s.pdf.status = "failed" THEN {s.pdf.error} ELSE {})
        \cup (IF s.image.lookup_error # "" THEN {s.image.lookup_error} ELSE {})
        \cup (IF s.ai.data # "unset" /\ ~s.ai.success THEN {s.ai.error} ELSE {})

\* C7: when a start-processing request in which a stage failed has returned,
\* the response is a 200 with status "failed" whose error is the message of
\* the failed stage, and the session's persisted status is FAILED.
C7_FailureReported ==
    \A i \in Requests :
        (/\ sp[i].pc = "done" /\ sp[i].pdf.status # "none"
         /\ StageErrors(sp[i]) # {}
         /\ sp[i].resp.persisted # "absent") =>
            /\ sp[i].resp.http = 200
            /\ sp[i].resp.status = "failed"
            /\ sp[i].resp.error \in StageErrors(sp[i])
            /\ sp[i].resp.persisted = "FAILED"

(***************************************************************************)
(* C8                                                                      *)
(***************************************************************************)
C8_Step ==
    \A id \in SessionIds :
        LET a == sessions[id].status
            b == sessions'[id].status
        IN /\ b \in {"absent", "deleted", "PENDING", "PROCESSING", "COMPLETED", "FAILED"}
           /\ (a = "absent" /\ b # "absent") => b = "PENDING"
           /\ (a \in Statuses /\ b \in Statuses /\ a # b) =>
                 \/ <<a, b>> \in {<<"PENDING", "PROCESSING">>,
                                  <<"PROCESSING", "COMPLETED">>,
                                  <<"PROCESSING", "FAILED">>}
                 \/ /\ b = "PROCESSING"
                    /\ \E i \in Requests :
                          /\ sp[i].pc \in {"idle", "done"}
                          /\ sp'[i].pc \in {"pdf", "llm"}
                          /\ sp'[i].sid = id

\* C8: a session's status is always PENDING, PROCESSING, COMPLETED or
\* FAILED, and it changes only from PENDING to PROCESSING, from PROCESSING
\* to COMPLETED or FAILED, or into PROCESSING by a start-processing request.
C8_StatusTransitions == [][C8_Step]_vars

(***************************************************************************)
(* C9                                                                      *)
(***************************************************************************)
\* C9: for a reply whose text json.loads rejects, each of the two
\* operations returns success with the warning set and with the reply's
\* text as video_prompt and as audio_prompt; no reply makes either raise.
C9_FallbackOnNonJson ==
    lout.called =>
        /\ ~lout.res.raised
        /\ (/\ lin.api_ok /\ ~lin.content.none
            /\ json_loads(lin.content).raised = "JSONDecodeError") =>
              /\ lout.res.success
              /\ lout.res.warning # ""
              /\ lout.res.video_prompt = Text(lin.content.toks)
              /\ lout.res.audio_prompt = Text(lin.content.toks)

\* The PDF operation has answered a reply that opens an object and never
\* closes it.
C9_Witness ==
    /\ lout.called /\ lout.fn = "analyze_pdf_content_and_generate_prompts"
    /\ lin.api_ok /\ lin.content.toks = <<"{", StringToken, ":">>
    /\ lout.res.success /\ lout.res.warning = FormatWarning
    /\ lout.res.video_prompt = "{\"s\":"

(***************************************************************************)
(* C10                                                                     *)
(***************************************************************************)
\* C10: after a download whose URL answered with a status outside 200..299,
\* the result is a failure and there is no file at the destination path.
C10_NoFileAfterHttpError ==
    (dl.pc = "done" /\ dl.status # 0 /\ dl.status \notin 200..299) =>
        /\ ~dl.result.success
        /\ ~fs[dl.id].exists

(***************************************************************************)
(* C11                                                                     *)
(***************************************************************************)
\* The ids a creation response can carry, as str() gives them.
CarriedIds == {PyStr(v) : v \in {x \in IdValues : Truthy(x)}}

\* The order of the steps, in every state of an attempt.
C11_Order ==
    \* the creation request is issued once, and only with an API key
    /\ gen.posts = (IF gen.pc = "create" \/ ~api_key THEN 0 ELSE 1)
    \* polling has started only with the task id a creation returned
    /\ ppc # "idle" => gen.pc # "create" /\ gen.posts = 1 /\ task_id \in CarriedIds
    \* the download has started only after polling returned success and a location
    /\ dl.pc # "idle" => ppc = "done" /\ pout.success /\ Truthy(pout.video_url)
    \* a failed step is the last step, and its failure is the result
    /\ (ppc = "done" /\ ~pout.success) => dl.pc = "idle" /\ gen.pc \in {"poll", "done"}
    /\ (gen.pc = "done" /\ ~gen.result.d.success) =>
          CASE gen.result.of = "create_video_task" ->
                    /\ ppc = "idle" /\ dl.pc = "idle"
                    /\ gen.result.d = create_video_task(api_key, cresp)
            [] gen.result.of = "poll_task_status" ->
                    /\ dl.pc = "idle"
                    /\ ~pout.success /\ gen.result.d.error = pout.error
            [] gen.result.of = "download_video" ->
                    ~dl.result.success /\ gen.result.d.error = dl.result.error
            [] OTHER -> ~api_key /\ ppc = "idle" /\ dl.pc = "idle"
    /\ (gen.pc = "done" /\ gen.result.d.success) =>
          pout.success /\ dl.result.success /\ gen.result.d.task_id = task_id

\* No step is run a second time, and a finished attempt does nothing more.
C11_Step ==
    /\ gen'.posts >= gen.posts
    /\ ppc' = "start" => ppc \in {"idle", "start"}
    /\ ppc = "done" => ppc' = "done" /\ pout' = pout
    /\ dl.pc = "done" => dl' = dl
    /\ gen.pc = "done" => vars' = vars

\* C11: within one call of generate_video_complete the steps run in the
\* order create task, poll status, download: the creation request is issued
\* exactly once, polling starts only after creation returned a task id, the
\* download starts only after polling returned success with a result
\* location, and a failed step ends the attempt with that step's failure,
\* without a retry and without any later step.
C11_StepsInOrder == []C11_Order /\ [][C11_Step]_vars

\* An attempt that went through all three steps and ended in the download's failure.
C11_Witness ==
    /\ gen.pc = "done" /\ gen.posts = 1
    /\ gen.result.of = "download_video" /\ ~gen.result.d.success
    /\ pout.kind = "completed" /\ dl.pc = "done"

(***************************************************************************)
(* C12                                                                     *)
(***************************************************************************)
\* C12: when the creation response was received and none of its candidate
\* locations holds an identifier, create_video_task returns a failure that
\* carries the raw response body and has no task id.
C12_NoIdFailureCarriesBody ==
    (/\ gen.pc = "done" /\ api_key
     /\ cresp \in CreateResponses /\ cresp.kind \in {"dict", "none"}
     /\ ~CarriesId(cresp))
    => /\ gen.result.of = "create_video_task"
       /\ ~gen.result.d.success
       /\ "response_data" \in gen.result.d.keys
       /\ gen.result.d.response_data = cresp
       /\ "task_id" \notin gen.result.d.keys

(***************************************************************************)
(* C13                                                                     *)
(***************************************************************************)
TimeoutText == "Task polling timeout after 900 seconds"

\* A pass of the loop that begins after the maximum wait returns at once,
\* without a query, and what it returns differs from every other failure.
C13_Step ==
    LET elapsed_ == now - start_time
    IN /\ (ppc = "loop" /\ elapsed_ > max_wait_seconds) =>
              /\ ppc' = "done" /\ queried' = queried
              /\ ~pout'.success
              /\ pout'.error = TimeoutText
              /\ pout'.elapsed_seconds = elapsed_
       /\ (ppc = "loop" /\ elapsed_ <= max_wait_seconds /\ ppc' = "done") =>
              /\ pout'.error # TimeoutText
              /\ ~pout'.success =>
                    /\ pout'.elapsed_seconds = -1
                    /\ \/ pout'.error = "Task completed but no video URL found"
                       \/ \E msg \in ErrorValues \cup {NoneVal} : pout'.error = "Task failed: " \o PyStr(msg)

\* C13: when the maximum wait has elapsed before a terminal status was
\* seen, poll_task_status returns a timeout failure that holds the elapsed
\* time and that differs, by its error text and by the elapsed time, from the
\* terminal-failure result and from the missing-result failure.
C13_TimeoutDistinguishable == [][C13_Step]_vars

\* Polling has ended in the timeout after non-terminal answers only.
C13_Witness ==
    /\ ppc = "done" /\ pout.error = TimeoutText
    /\ pout.elapsed_seconds > max_wait_seconds
    /\ hist.clean /\ hist.last = "nonterminal"

(***************************************************************************)
(* C14                                                                     *)
(***************************************************************************)
\* What the handler of a request that is answered in this step was given:
\* a session id without a row, a category outside the enumeration.
C14_Step ==
    \A i \in Requests :
        LET r == sp'[i]
        IN (sp[i].pc \in {"idle", "done"} /\ r # sp[i] /\ r.pc = "done") =>
              /\ (/\ r.endpoint \in {"start-processing", "complete", "files"}
                  /\ ~Exists(sessions, r.sid)) => r.resp.http = 404
              /\ (/\ r.endpoint \in {"create", "start-processing"}
                  /\ r.endpoint = "start-processing" => Exists(sessions, r.sid)
                  /\ r.category # Null /\ ~IsVideoCategory(r.category)) => r.resp.http = 400

\* C14: a client error raised inside a session endpoint reaches the client
\* with its 4xx status code: 400 for a category outside the enumeration in
\* create-session and start-processing, 404 for a session id without a row
\* in start-processing, complete and list-session-files; never a 5xx.
C14_ClientErrorsKeepStatus == [][C14_Step]_vars

(***************************************************************************)
(* C15                                                                     *)
(***************************************************************************)
\* C15: after any execution of the file-delete endpoint, also one in which
\* one of the two deletions fails, a file's row in the database and its
\* object in the bucket both exist or are both gone.
C15_RowAndObjectTogether ==
    \A id \in FileIds : file_rows[id] = blobs[id]

(***************************************************************************)
(* C16                                                                     *)
(***************************************************************************)
\* The prompt a request was sent with: the pipeline works with the default
\* prompt when there was none.
SuppliedPrompt(s) == IF s.user_prompt = DefaultPrompt THEN Null ELSE s.user_prompt

\* The step in which the handler of an accepted start-processing request
\* writes the session row and enters the pipeline.
C16_Step ==
    \A i \in Requests :
        (sp[i].pc \in {"idle", "done"} /\ sp'[i].pc \in {"pdf", "llm"}) =>
            LET s == sp'[i]
                before == sessions[s.sid]
                after == sessions'[s.sid]
            IN /\ after.status = "PROCESSING"
               /\ after.user_prompt = (IF SuppliedPrompt(s) # Null THEN SuppliedPrompt(s)
                                       ELSE before.user_prompt)
               /\ after.category = (IF s.category # Null THEN s.category
                                    ELSE before.category)
               /\ \A f \in {"total_files", "processed_files", "output_video_path",
                            "video_url"} : after[f] = before[f]

\* C16: a start-processing request for an existing session sets the
\* persisted status to PROCESSING, whatever it was, before any pipeline
\* stage runs, and changes the stored user_prompt and category only to the
\* values the request supplies: an omitted field keeps its stored value.
C16_StartKeepsOmittedFields == [][C16_Step]_vars

(***************************************************************************)
(* C18                                                                     *)
(***************************************************************************)
OtherColumns == {"user_prompt", "category", "total_files", "processed_files",
                 "output_video_path", "video_url"}

\* Between two contents of the table, every row that has become FAILED
\* differs in its status only.
FailedChangesStatusOnly(a, b) ==
    \A id \in SessionIds :
        (Exists(a, id) /\ Exists(b, id) /\ a[id].status # "FAILED"
            /\ b[id].status = "FAILED") =>
                \A f \in OtherColumns : b[id][f] = a[id][f]

\* Every write of a step, one after the other: the tail of a
\* start-processing request is the results update, the except branch of the
\* pipeline and the failure branch of the handler.
C18_Step ==
    IF \E i \in Requests : sp[i].pc = "llm" /\ sp'[i].pc = "done"
    THEN \A i \in Requests :
            (sp[i].pc = "llm" /\ sp'[i].pc = "done") =>
                LET t1 == _update_session_with_results(sessions, sp[i], sp'[i].ai)
                    t2 == ProcessTail(sessions, sp[i], sp'[i].ai)
                IN /\ FailedChangesStatusOnly(sessions, t1)
                   /\ FailedChangesStatusOnly(t1, t2)
                   /\ FailedChangesStatusOnly(t2, sessions')
    ELSE FailedChangesStatusOnly(sessions, sessions')

\* C18: a transition of a session to FAILED changes its status only: the
\* stored user_prompt, category, total_files, processed_files,
\* output_video_path and video_url keep their values.
C18_FailedKeepsColumns == [][C18_Step]_vars

(***************************************************************************)
(* C17                                                                     *)
(***************************************************************************)
\* The pipeline run of request i is in progress on session id.
RunInProgress(i, id) ==
    sp[i].endpoint = "start-processing" /\ sp[i].pc \in {"pdf", "llm"} /\ sp[i].sid = id

\* While a run is in progress on a session, the session is PROCESSING.
C17_ProcessingWhileRunning ==
    \A id \in SessionIds :
        (\E i \in DOMAIN sp : RunInProgress(i, id)) => sessions[id].status = "PROCESSING"

\* The run that ends when no other is in progress leaves its outcome.
C17_Step ==
    \A i \in DOMAIN sp :
        (sp[i].pc = "llm" /\ sp'[i].pc = "done"
            /\ \A j \in DOMAIN sp \ {i} : ~RunInProgress(j, sp[i].sid)) =>
                sessions'[sp[i].sid].status =
                    (IF sp'[i].resp.status = "completed" THEN "COMPLETED" ELSE "FAILED")

\* C17: for any interleaving of two start-processing requests for the same
\* session, the persisted status is PROCESSING whenever at least one of the
\* two pipeline runs is still in progress, and the final status is the
\* outcome of the run that finished last.
C17_StatusUnderConcurrentRuns == []C17_ProcessingWhileRunning /\ [][C17_Step]_vars

(***************************************************************************)
(* C19                                                                     *)
(***************************************************************************)
\* A request that has set its session to PROCESSING is in the pipeline, and
\* the only way out of the pipeline is the handler's answer: no request is
\* in the pipeline forever.
C19_Ends ==
    \A i \in Requests : []<>(sp[i].pc \notin {"pdf", "llm"})

\* The session row as the handler left it when it answered.
C19_Settled ==
    \A i \in DOMAIN sp :
        (sp[i].endpoint = "start-processing" /\ sp[i].pc = "done"
            /\ sp[i].resp.http = 200) =>
                sp[i].resp.persisted \in {"COMPLETED", "FAILED"}

C20_Step ==
    (dl.pc = "streaming" /\ dl.left > 0 /\ fs[dl.id].chunks > 0 /\ dl'.pc = "done") =>
        /\ ~dl'.result.success
        /\ ~fs'[dl.id].exists

\* C20: when the download stream is interrupted after some bytes have been
\* written, download_video reports a download failure and no partial file
\* remains at the destination path.
C20_NoPartialFile == [][C20_Step]_vars

(***************************************************************************)
(* SpecPrompt: the request the pipeline's prompt step sends to the LLM,    *)
(* and the one a direct call of the PDF operation sends                    *)
(***************************************************************************)
restPrompt == <<earlyVars, countVars, ttsVars, imageVars>>

\* final_user_prompt is never empty: the request's, the session's or the
\* default one.
PromptTexts == {"prompt-a", DefaultPrompt}

InitPrompt ==
    /\ pm \in {[NoPromptRun EXCEPT !.pc = "called", !.user_prompt = u, !.pdf_content = t,
                                   !.images = im, !.category = c] :
                 u \in PromptTexts, t \in DocumentTexts, im \in ImageLists,
                 c \in VideoCategories \cup {Null}}
    /\ IdleCreate /\ IdleStatus /\ IdlePoll /\ IdleSession /\ IdleLLM /\ IdleDownload
    /\ IdleGenerate /\ IdleFiles /\ IdleCount /\ IdleTts /\ IdleImage

\* await self._generate_ai_prompts(final_user_prompt, combined_content, images,
\* final_category), up to the request it submits
GenerateAiPrompts ==
    /\ pm.pc = "called"
    /\ pm' = [pm EXCEPT !.pc = "sent",
                !.req = GeneratedRequest(pm.user_prompt, pm.pdf_content, pm.images,
                                         pm.category)]
    /\ UNCHANGED restPrompt

\* await openai_service.analyze_pdf_content_and_generate_prompts(user_prompt,
\* pdf_content, category), up to the request it submits
AnalyzePdfContent ==
    /\ pm.pc = "called"
    /\ pm' = [pm EXCEPT !.pc = "sent", !.direct = TRUE,
                !.req = PdfAnalysisRequest(pm.user_prompt, pm.pdf_content, pm.category)]
    /\ UNCHANGED restPrompt

NextPrompt == GenerateAiPrompts \/ AnalyzePdfContent

SpecPrompt == InitPrompt /\ [][NextPrompt]_vars

(***************************************************************************)
(* C21                                                                     *)
(***************************************************************************)
\* C21: the user message of analyze_pdf_content_and_generate_prompts holds
\* exactly the first 6000 characters of the document text when the text is
\* longer than 6000 characters and the whole text otherwise; never more
\* than 6000 characters of document text are submitted.
C21_DocumentTruncated ==
    (pm.pc = "sent" /\ pm.req.fn = "analyze_pdf_content_and_generate_prompts") =>
        LET document == pm.req.user.document
            expected == IF Len(pm.pdf_content) > 6000 THEN 6000 ELSE Len(pm.pdf_content)
        IN /\ Len(document) = expected
           /\ \A i \in 1..expected : document[i] = pm.pdf_content[i]
           /\ Len(document) <= 6000

\* A document of more than 6000 characters went out cut to 6000.
C21_Witness ==
    /\ pm.pc = "sent" /\ pm.req.fn = "analyze_pdf_content_and_generate_prompts"
    /\ Len(pm.pdf_content) > 6000
    /\ Len(pm.req.user.document) = 6000
    /\ pm.req.user.document[6000] = pm.pdf_content[6000]

(***************************************************************************)
(* C22                                                                     *)
(***************************************************************************)
\* C22: the system instruction a processing run sends is the one selected
\* by its category: two runs that differ only in their category (a member
\* of the enumeration) send different system instructions, with or without
\* extracted document text.
C22_InstructionByCategory ==
    pm.pc = "sent" /\ ~pm.direct =>
        \A other \in VideoCategories \ {pm.category} :
            pm.category \in VideoCategories =>
                GeneratedRequest(pm.user_prompt, pm.pdf_content, pm.images, other).system
                    # pm.req.system

(***************************************************************************)
(* C23                                                                     *)
(***************************************************************************)
\* C23: whenever analyze_and_generate_prompts returns success, for every
\* reply of the LLM (JSON of any shape, or other text), data is an object
\* with a non-empty video_prompt and with an audio_prompt.
C23_SuccessCarriesPrompts ==
    (lout.called /\ lout.fn = "analyze_and_generate_prompts" /\ lout.res.success) =>
        /\ lout.res.data = "dict"
        /\ lout.res.video_prompt \notin {Null, ""}
        /\ lout.res.audio_prompt # Null

(***************************************************************************)
(* SpecCount: concurrent requests for one file's signed download URL       *)
(***************************************************************************)
restCount == <<earlyVars, promptVars, ttsVars, imageVars>>

InitCount ==
    /\ \E exists \in BOOLEAN, n \in 0..MaxCount :
          dc = [NoCounting EXCEPT !.file = [exists |-> exists, download_count |-> n],
                                  !.before = n]
    /\ IdleCreate /\ IdleStatus /\ IdlePoll /\ IdleSession /\ IdleLLM /\ IdleDownload
    /\ IdleGenerate /\ IdleFiles /\ IdlePrompt /\ IdleTts /\ IdleImage

\* A request arrives: its database session is opened (Depends(get_db)) and
\* its handler is scheduled on the event loop.
RequestUrl(i) ==
    /\ dc.reqs[i].pc = "idle"
    /\ dc' = [dc EXCEPT !.reqs[i].pc = "scheduled"]
    /\ UNCHANGED restCount

\* GET /files/{file_id}/download: the handler runs.
GetDownloadUrl(i) ==
    /\ dc.reqs[i].pc = "scheduled"
    /\ \E signed \in BOOLEAN :
          LET r == get_download_url(dc.file, signed)
          IN dc' = [dc EXCEPT !.file = r.file,
                              !.reqs[i] = [pc |-> "done", http |-> r.http]]
    /\ UNCHANGED restCount

NextCount == \E i \in DownloadRequests : RequestUrl(i) \/ GetDownloadUrl(i)

SpecCount == InitCount /\ [][NextCount]_vars

(***************************************************************************)
(* C24                                                                     *)
(***************************************************************************)
Succeeded == {i \in DownloadRequests : dc.reqs[i].pc = "done" /\ dc.reqs[i].http = 200}

\* C24: however the requests for a file's signed URL interleave, the
\* file's download_count is higher than before by exactly the number of
\* requests that succeeded; a request whose URL generation failed has left
\* the counter unchanged.
C24_CountsEachSuccess ==
    dc.file.download_count = dc.before + Cardinality(Succeeded)

\* All requests have been answered, some with a URL and one with a failure.
C24_Witness ==
    /\ \A i \in DownloadRequests : dc.reqs[i].pc = "done"
    /\ Cardinality(Succeeded) = MaxDownloads - 1
    /\ dc.file.download_count = dc.before + MaxDownloads - 1

(***************************************************************************)
(* SpecTts: calls of process_tts_request, one after the other              *)
(***************************************************************************)
restTts == <<earlyVars, promptVars, countVars, imageVars>>

InitTts ==
    /\ tts = NoTts
    /\ IdleCreate /\ IdleStatus /\ IdlePoll /\ IdleSession /\ IdleLLM /\ IdleDownload
    /\ IdleGenerate /\ IdleFiles /\ IdlePrompt /\ IdleCount /\ IdleImage

\* audio_record = crud.create_audio(db, audio_create)
CreateAudio ==
    /\ tts.pc \in {"idle", "returned", "raised"}
    /\ Len(tts.audios) < MaxAudios
    /\ \E audio_format \in AudioFormats :
          tts' = [tts EXCEPT !.pc = "created", !.audios = create_audio(tts.audios),
                             !.id = Len(tts.audios) + 1, !.audio_format = audio_format,
                             !.audio_content = -1, !.saved = FALSE]
    /\ UNCHANGED restTts

\* crud.update_audio(db, audio_record.id, AudioUpdate(status=PROCESSING))
SetProcessing ==
    /\ tts.pc = "created"
    /\ tts' = [tts EXCEPT !.pc = "processing",
                  !.audios = update_audio(tts.audios, tts.id, [status |-> "processing"])]
    /\ UNCHANGED restTts

\* audio_content = self.synthesize_speech(...): the bytes, or an error of the
\* speech API
SynthesizeSpeech ==
    /\ tts.pc = "processing"
    /\ \E ok \in BOOLEAN, n \in 0..MaxBytes :
          tts' = IF ok THEN [tts EXCEPT !.pc = "synthesized", !.audio_content = n]
                 ELSE fail_tts_request(tts)
    /\ UNCHANGED restTts

\* The file path and save_audio_file: audio_format.lower() raises for None,
\* the write may fail.
SaveAudioFile ==
    /\ tts.pc = "synthesized"
    /\ \E ok \in BOOLEAN :
          tts' = IF tts.audio_format = Null \/ ~ok THEN fail_tts_request(tts)
                 ELSE [tts EXCEPT !.pc = "saved", !.saved = TRUE,
                          !.disk = @ \cup {AudioPath(tts.id, tts.audio_format)}]
    /\ UNCHANGED restTts

\* return crud.update_audio(db, audio_record.id, AudioUpdate(status=COMPLETED,
\* file_path=file_path, file_size=file_size))
CompleteAudio ==
    /\ tts.pc = "saved"
    /\ tts' = [tts EXCEPT !.pc = "returned",
                  !.audios = update_audio(tts.audios, tts.id,
                                [status |-> "completed",
                                 file_path |-> AudioPath(tts.id, tts.audio_format),
                                 file_size |-> tts.audio_content])]
    /\ UNCHANGED restTts

NextTts == CreateAudio \/ SetProcessing \/ SynthesizeSpeech \/ SaveAudioFile \/ CompleteAudio

SpecTts == InitTts /\ [][NextTts]_vars

(***************************************************************************)
(* C25                                                                     *)
(***************************************************************************)
\* The status of the record of the current call.
Current == tts.audios[tts.id].status

\* The record is created as PENDING, becomes PROCESSING from PENDING only,
\* and synthesis runs while it is PROCESSING.
C25_Step ==
    /\ (tts.pc # "created" /\ tts'.pc = "created") => tts'.audios[tts'.id].status = "pending"
    /\ (tts.pc = "created" /\ tts'.pc # "created") =>
          (Current = "pending" /\ tts'.audios[tts.id].status = "processing")
    /\ (tts.pc = "processing" /\ tts'.pc # "processing") => Current = "processing"

\* Once the call has ended the record is COMPLETED, with its path and size,
\* exactly when synthesis and the save succeeded and the call returned, and
\* FAILED with the error raised otherwise; earlier records stay settled.
C25_Ended ==
    /\ tts.pc \in {"returned", "raised"} =>
          /\ Current \in {"completed", "failed"}
          /\ Current = "completed" <=> (tts.audio_content >= 0 /\ tts.saved)
          /\ Current = "completed" <=> tts.pc = "returned"
          /\ Current = "completed" =>
                /\ tts.audios[tts.id].file_path \in tts.disk
                /\ tts.audios[tts.id].file_size = tts.audio_content
    /\ \A id \in DOMAIN tts.audios :
          id # tts.id => tts.audios[id].status \in {"completed", "failed"}

NoSessionId == 0
FileSessionIds == {NoSessionId} \cup RequestedIds

\* The rows without the k-th one.
RemoveAt(fl, k) == SubSeq(fl, 1, k - 1) \o SubSeq(fl, k + 1, Len(fl))

\* The lines both upload endpoints end with: when a session id was given and
\* the session exists, total_files is counted again from the rows.
RefreshTotalFiles(t, fl, video_session_id) ==
    IF video_session_id # NoSessionId
    THEN crud_update_video_session(t, video_session_id,
            [total_files |-> get_files_count_by_video_session(fl, video_session_id)])
    ELSE t

\* crud.update_file: the fields that were set are written to the row.
crud_update_file(fl, k, upd) ==
    [fl EXCEPT ![k] = [f \in DOMAIN @ |-> IF f \in DOMAIN upd THEN upd[f] ELSE @[f]]]

InitTotals == InitSession

\* POST /files/upload-multiple: the request arrives.
UploadMultipleFiles ==
    /\ \E i \in Requests, sid \in FileSessionIds :
          /\ sp[i].pc \in {"idle", "done"}
          /\ sp' = [sp EXCEPT ![i] = [IdleRequest EXCEPT !.pc = "uploading",
                                         !.endpoint = "upload-multiple", !.sid = sid]]
    /\ UNCHANGED <<sessions, files, restSession>>

\* One pass of its loop: the object is stored and the row created.
UploadNext ==
    /\ Len(files) < MaxFiles
    /\ \E i \in Requests, k \in FileKinds :
          /\ sp[i].pc = "uploading"
          /\ files' = Append(files, [sid |-> sp[i].sid, kind |-> k.kind,
                                     readable |-> k.readable])
    /\ UNCHANGED <<sessions, sp, restSession>>

\* A pass of the loop raises (the read or the storage upload): 500, the rows
\* made so far stay.
UploadInterrupted ==
    /\ \E i \in Requests :
          /\ sp[i].pc = "uploading"
          /\ sp' = [sp EXCEPT ![i] = Answer("upload-multiple", sp[i].sid, Null, 500,
                                            "Multiple file upload failed: storage error")]
    /\ UNCHANGED <<sessions, files, restSession>>

\* The loop has ended: the file count of the session is updated.
UploadFinished ==
    /\ \E i \in Requests :
          /\ sp[i].pc = "uploading"
          /\ sessions' = RefreshTotalFiles(sessions, files, sp[i].sid)
          /\ sp' = [sp EXCEPT ![i] = Answer("upload-multiple", sp[i].sid, Null, 200, "")]
    /\ UNCHANGED <<files, restSession>>

\* PUT /files/{file_id} with a video_session_id in the body (None included)
UpdateFileInfo ==
    /\ \E k \in 1..MaxFiles, sid \in FileSessionIds :
          /\ k \in DOMAIN files
          /\ files' = crud_update_file(files, k, [sid |-> sid])
    /\ UNCHANGED <<sessions, sp, restSession>>

\* DELETE /files/{file_id}, for a file whose object and row are removed
DeleteFileRow ==
    /\ \E k \in 1..MaxFiles :
          /\ k \in DOMAIN files
          /\ files' = RemoveAt(files, k)
    /\ UNCHANGED <<sessions, sp, restSession>>

NextTotals ==
    \/ CreateSession \/ UploadFile
    \/ UploadMultipleFiles \/ UploadNext \/ UploadInterrupted \/ UploadFinished
    \/ UpdateFileInfo \/ DeleteFileRow

SpecTotals == InitTotals /\ [][NextTotals]_vars

(***************************************************************************)
(* C26                                                                     *)
(***************************************************************************)
\* Each session's total_files is the number of rows that refer to it.
TotalsMatch(t, fl) ==
    \A sid \in SessionIds :
        Exists(t, sid) => t[sid].total_files = get_files_count_by_video_session(fl, sid)

\* The steps that complete a file operation: a single upload, the end of a
\* multiple upload that was not interrupted, an update of a row's
\* video_session_id, a delete.
CompletesFileOperation ==
    \/ /\ Len(files') = Len(files) + 1
       /\ (\A i \in Requests : sp[i].pc # "uploading") \/ sessions' # sessions
    \/ \E i \in Requests : /\ sp[i].pc = "uploading" /\ sp'[i].pc = "done"
                           /\ sp'[i].resp.http = 200
    \/ Len(files') = Len(files) /\ files' # files
    \/ Len(files') < Len(files)

C26_Step == (TotalsMatch(sessions, files) /\ CompletesFileOperation) =>
                TotalsMatch(sessions', files')

\* C26: after every completed file operation (single upload, multiple
\* upload, an update that changes video_session_id, delete) each session's
\* total_files equals the number of file rows that refer to the session.
C26_TotalFilesMatchRows == [][C26_Step]_vars

(***************************************************************************)
(* C27                                                                     *)
(***************************************************************************)
\* The step in which the create-session endpoint makes a row for a request
\* that gave a user_prompt and a category.
C27_Step ==
    \A i \in Requests, sid \in SessionIds :
        (/\ sessions[sid].status = "absent" /\ Exists(sessions', sid)
         /\ sp'[i].endpoint = "create" /\ sp'[i].sid = sid /\ sp'[i].resp.http = 200
         /\ sp'[i].user_prompt # Null /\ sp'[i].category # Null) =>
            /\ sessions'[sid].user_prompt = sp'[i].user_prompt
            /\ sessions'[sid].category = sp'[i].category
            /\ sessions'[sid].status = "PENDING"
            /\ sessions'[sid].total_files = 0
            /\ sessions'[sid].processed_files = 0

\* C27: a session created through the create-session endpoint with a
\* user_prompt and a category stores exactly those values and starts as
\* PENDING with total_files = 0 and processed_files = 0.
C27_CreateStoresPromptAndCategory == [][C27_Step]_vars

(***************************************************************************)
(* C28                                                                     *)
(***************************************************************************)
\* C28: process_video_session returns status "completed" only when it has
\* persisted COMPLETED for the session; whenever it persisted FAILED, or
\* could not persist the result, its returned status is "failed".
C28_CompletedOnlyIfPersisted ==
    \A i \in Requests :
        (sp[i].pc = "done" /\ sp[i].run.status # "") =>
            /\ sp[i].run.status = "completed" => sp[i].run.persisted = "COMPLETED"
            /\ sp[i].run.persisted # "COMPLETED" => sp[i].run.status = "failed"

(***************************************************************************)
(* SpecImage: the image stage of one processing run                        *)
(***************************************************************************)
restImage == <<earlyVars, promptVars, countVars, ttsVars>>

InitImage ==
    /\ img \in {[NoImageRun EXCEPT !.pc = "called", !.rows = l, !.db_ok = ok] :
                  l \in RowLists(MaxImageFiles), ok \in BOOLEAN}
    /\ IdleCreate /\ IdleStatus /\ IdlePoll /\ IdleSession /\ IdleLLM /\ IdleDownload
    /\ IdleGenerate /\ IdleFiles /\ IdlePrompt /\ IdleCount /\ IdleTts

\* image_result = await self.image_service.process_session_image(session_id)
ProcessSessionImage ==
    /\ img.pc = "called"
    /\ img' = [img EXCEPT !.pc = "looked-up",
                  !.image_result = process_session_image(img.rows, img.db_ok)]
    /\ UNCHANGED restImage

\* The rest of _process_session_images: its result goes to the prompt step
\* as image_results["images"].
PassImagesOn ==
    /\ img.pc = "looked-up"
    /\ img' = [img EXCEPT !.pc = "passed-on",
                  !.image_results = images_passed_on(img.image_result)]
    /\ UNCHANGED restImage

NextImage == ProcessSessionImage \/ PassImagesOn

SpecImage == InitImage /\ [][NextImage]_vars

(***************************************************************************)
(* C29                                                                     *)
(***************************************************************************)
\* C29: every image reference the pipeline passes on is a URL, signed or
\* public: a session whose image file has no public URL yields a signed URL
\* or an empty list, never a list with a null entry.
C29_NoNullImage ==
    img.pc = "passed-on" =>
        \A k \in DOMAIN img.image_results.images : img.image_results.images[k] # Null

(***************************************************************************)
(* C30                                                                     *)
(***************************************************************************)
\* C30: when a response with a terminal-failure status holds no error
\* message at any of data.error, error, result.error and detail.error, the
\* failure poll_task_status returns has the error text
\* "Task failed: Unknown error".
C30_UnknownErrorDefault ==
    (/\ sout.called /\ sout.out.done /\ sout.out.kind = "failed"
     /\ \A i \in 1..Len(ErrorCandidates) :
           ValueAt(sresp, ErrorCandidates[i][1], ErrorCandidates[i][2]) = NoneVal) =>
        sout.out.error = "Task failed: Unknown error"

====
